---- MODULE Spec2Model ----
(***************************************************************************)
(* A model of the transaction pool coordinator of coreth                   *)
(* (core/txpool/txpool.go): the account reservation table handed to the    *)
(* sub-pools (TxPool.reserver) and the head-reset loop (TxPool.loop) with  *)
(* its shutdown (TxPool.Close).                                            *)
(***************************************************************************)
EXTENDS Integers, Sequences, FiniteSets, TLC

\* ------------------------------------------------------------------ bounds
NumSubPools == 2
\* most sub-pools a pool is constructed with, where New is checked by itself
MaxNewSubPools == 3
NumAccounts == 2
MaxHeads == 3
\* transactions in one batch handed to Add
MaxTxs == 3
\* largest nonce a sub-pool reports
MaxNonce == 2
\* nodes that send pull requests
MaxNodes == 2
\* heights the validator state moves through
MaxHeight == 1
\* transactions the responder can hold
MaxPoolTxs == 1
\* largest gas tip
MaxTip == 2
\* transaction hashes the Mempool sees
MaxHashes == 3
\* the Mempool's configured capacity
MaxCap == 2
\* largest filter salt
MaxSalt == 1
\* peers pull requests are sent to
MaxPeers == 2
\* bits of a membership filter: as many as there are salts
FilterBits == MaxSalt + 1
\* transactions in one inbound push message or pull response
MaxMsg == 1
\* transactions in one inbound push message, where the push handler is
\* checked by itself
MaxPushMsg == 2
\* transactions a pull response carries at most: fewer than the capacity
MaxResp == MaxCap - 1

\* p.subpools: the registered sub-pools, named by their index (registration order)
subpools == 0 .. (NumSubPools - 1)
\* common.Address values the sub-pools ask for
Accounts == 1 .. NumAccounts

\* the errors reserver returns (errors.New texts); ErrNil is Go's nil error
ErrNil == "nil"
ErrAlreadyReserved == "address already reserved"
ErrNotReserved == "address not reserved"
ErrNotOwned == "address not owned"

\* the log.Error lines of reserver ("" when nothing is logged)
LogNone == ""
LogReserveOwned == "pool attempted to reserve already-owned address"
LogUnreserveNonReserved == "pool attempted to unreserve non-reserved address"
LogUnreserveNonOwned == "pool attempted to unreserve non-owned address"

VARIABLES
    \* ---- reservation table (TxPool.reservations, TxPool.reserveLock)
    reservations,   \* map[common.Address]SubPool: a function on the reserved accounts
    reserveLock,    \* sync.Mutex: TRUE when locked
    metricsEnabled, \* metrics.Enabled
    gauge,          \* the gauge "txpool/reservations/<id>" of every sub-pool
    rpc,            \* per sub-pool: where its one reserver call stands
    rargs,          \* per sub-pool: the arguments (addr, reserve) of that call
    rlocal,         \* per sub-pool: the locals owner, exists read at line 139
    rret,           \* per sub-pool: the error returned and the line logged
    rbefore,        \* per sub-pool: the table as it was when the call took the lock
    held,           \* per sub-pool: accounts it acquired successfully and has not released
    lastReleaser,   \* per account: the sub-pool that last released it (-1: never released)
    reacquired,     \* accounts whose owner acquired them again while owning them
    rwait           \* per sub-pool: the call it has made that has not returned yet,
                    \* with whether the account was unreserved when it was made

VARIABLES
    \* ---- the reset loop (TxPool.loop), its reset goroutines and TxPool.Close
    loopPc,         \* where the loop goroutine stands
    oldHead,        \* loop's oldHead: a header pointer, named by a number
    newHead,        \* loop's newHead
    resetBusy,      \* number of markers in the buffered channel resetBusy
    errc,           \* loop's errc: TRUE once a quit request was received (errc != nil)
    notified,       \* number of head events the loop has received on newHeadCh
    resets,         \* the reset goroutines started so far, in start order
    trace,          \* what the reset goroutines, the loop and Close did, in order
    newHeadSub,     \* TRUE while the chain head subscription is live
    subsClosed,     \* TRUE once p.subs.Close() ran
    closePc,        \* where the caller of Close stands
    closeIdx,       \* Close: index of the next sub-pool to close
    closeErrs,      \* Close: errs, the sub-pools whose Close returned an error
    closeRet        \* Close: the error returned and the errors it reports (err "" until it returns)

rvars == <<reservations, reserveLock, metricsEnabled, gauge, rpc, rargs, rlocal, rret,
           rbefore, held, lastReleaser, reacquired, rwait>>

lvars == <<loopPc, oldHead, newHead, resetBusy, errc, notified, resets, trace,
           newHeadSub, subsClosed, closePc, closeIdx, closeErrs, closeRet>>

VARIABLES
    \* ---- the calls of the query and submission surface (TxPool.Add, TxPool.Nonce)
    call            \* the last call made: its arguments, what it handed to the
                    \* sub-pools and what it returned

cvars == <<call>>

VARIABLES
    \* ---- construction (New)
    ctorPc,         \* where New stands
    ctorN,          \* len(subpools) of the call of New
    chainHead,      \* the chain's current block, named by its height
    ctorHead,       \* New's head: the block retrieved at its start
    ctorIdx,        \* New's i: the sub-pool whose Init is next, or has failed
    ctorJ,          \* New's j: the sub-pool to close next while unwinding
    ctorTrace,      \* the Init and Close calls New has made on the sub-pools
    ctorRet         \* what New returned: a pool or none, and the error

nvars == <<ctorPc, ctorN, chainHead, ctorHead, ctorIdx, ctorJ, ctorTrace, ctorRet>>

VARIABLES
    \* ---- the validator gate in front of the pull-gossip responder
    valHeight,      \* validator state: the current height
    valSet,         \* validator state: the validator set at that height, node -> weight
    mempool,        \* the transactions the responder holds
    req             \* the inbound pull request being handled, and what came of it

gvars == <<valHeight, valSet, mempool, req>>

VARIABLES
    \* ---- the gas tip (TxPool.gasTip, GasTip, SetGasTip)
    initGasTip,     \* the gasTip New was called with
    gasTip,         \* p.gasTip, an atomic pointer: << >> is nil, <<t>> points to t
    subGasTip,      \* the tip each sub-pool enforces
    setPc,          \* where the SetGasTip call stands
    setTip,         \* SetGasTip's tip
    setIdx,         \* SetGasTip: the sub-pool the tip is forwarded to next
    lastSetTip,     \* the tip of the most recent SetGasTip call, << >> when there was none
    tipRet          \* the last GasTip call: what it returned, or that it panicked

tvars == <<initGasTip, gasTip, subGasTip, setPc, setTip, setIdx, lastSetTip, tipRet>>

VARIABLES
    \* ---- the Mempool (storage and membership filter)
    mpStore,        \* storage: the entries in insertion order, oldest first
    mpFilter,       \* the membership filter: its salt and the bits that are set
    mpRet           \* the last Mempool operation and what it returned

mvars == <<mpStore, mpFilter, mpRet>>

VARIABLES
    \* ---- the gossip coordinator of one transaction kind
    kind,           \* the transaction kind this coordinator gossips
    toGossip,       \* locally accepted transactions waiting to be pushed
    lastPush,       \* the push message broadcast last
    hret,           \* the inbound message handled last and what came of it
    inserted,       \* the transaction inserted last, while stored: the paths it came in through, with the error each reported
    pull            \* per peer: where the outbound pull cycle stands

pvars == <<kind, toGossip, lastPush, hret, inserted, pull>>

\* the variables of the parts above
basevars == <<rvars, lvars, cvars, nvars, gvars>>

yvars == <<tvars, mvars, pvars>>

xvars == <<cvars, nvars, gvars, yvars>>

vars == <<rvars, lvars, xvars>>

\* ---------------------------------------------------------------- reserver

NoArgs == [addr |-> 0, reserve |-> FALSE]
NoLocal == [exists |-> FALSE, owner |-> -1]
NoRet == [err |-> ErrNil, log |-> LogNone]

\* owner, exists := p.reservations[addr]   (owner is nil, here -1, when absent)
lookup(res, addr) ==
    IF addr \in DOMAIN res
    THEN [exists |-> TRUE, owner |-> res[addr]]
    ELSE [exists |-> FALSE, owner |-> -1]

\* --- variants of the branches, each with one plausible slip
\* the acquire branch without the "if exists" block: the entry is overwritten
reserverDecide_overwrite(id, look, reserve) ==
    IF reserve
    THEN [err |-> ErrNil, log |-> LogNone, op |-> "set"]
    ELSE IF ~look.exists
         THEN [err |-> ErrNotReserved, log |-> LogUnreserveNonReserved, op |-> "keep"]
         ELSE IF id # look.owner
              THEN [err |-> ErrNotOwned, log |-> LogUnreserveNonOwned, op |-> "keep"]
              ELSE [err |-> ErrNil, log |-> LogNone, op |-> "delete"]

\* the acquire branch forgiving every existing entry, not only the caller's own
reserverDecide_forgive(id, look, reserve) ==
    IF reserve
    THEN IF look.exists
         THEN [err |-> ErrNil, log |-> LogReserveOwned, op |-> "keep"]
         ELSE [err |-> ErrNil, log |-> LogNone, op |-> "set"]
    ELSE IF ~look.exists
         THEN [err |-> ErrNotReserved, log |-> LogUnreserveNonReserved, op |-> "keep"]
         ELSE IF id # look.owner
              THEN [err |-> ErrNotOwned, log |-> LogUnreserveNonOwned, op |-> "keep"]
              ELSE [err |-> ErrNil, log |-> LogNone, op |-> "delete"]

\* the release branch without the owner comparison
reserverDecide_anyRelease(id, look, reserve) ==
    IF reserve
    THEN IF look.exists
         THEN IF look.owner = id
              THEN [err |-> ErrNil, log |-> LogReserveOwned, op |-> "keep"]
              ELSE [err |-> ErrAlreadyReserved, log |-> LogNone, op |-> "keep"]
         ELSE [err |-> ErrNil, log |-> LogNone, op |-> "set"]
    ELSE IF ~look.exists
         THEN [err |-> ErrNotReserved, log |-> LogUnreserveNonReserved, op |-> "keep"]
         ELSE [err |-> ErrNil, log |-> LogNone, op |-> "delete"]

\* the release branch without the "if !exists" block: a nil owner is "not owned"
reserverDecide_noExistsCheck(id, look, reserve) ==
    IF reserve
    THEN IF look.exists
         THEN IF look.owner = id
              THEN [err |-> ErrNil, log |-> LogReserveOwned, op |-> "keep"]
              ELSE [err |-> ErrAlreadyReserved, log |-> LogNone, op |-> "keep"]
         ELSE [err |-> ErrNil, log |-> LogNone, op |-> "set"]
    ELSE IF id # look.owner
         THEN [err |-> ErrNotOwned, log |-> LogUnreserveNonOwned, op |-> "keep"]
         ELSE [err |-> ErrNil, log |-> LogNone, op |-> "delete"]

\* the acquire branch taking the caller's own entry for a new one: set and counted again
reserverDecide_recount(id, look, reserve) ==
    IF reserve
    THEN IF look.exists /\ look.owner # id
         THEN [err |-> ErrAlreadyReserved, log |-> LogNone, op |-> "keep"]
         ELSE [err |-> ErrNil, log |-> LogNone, op |-> "set"]
    ELSE IF ~look.exists
         THEN [err |-> ErrNotReserved, log |-> LogUnreserveNonReserved, op |-> "keep"]
         ELSE IF id # look.owner
              THEN [err |-> ErrNotOwned, log |-> LogUnreserveNonOwned, op |-> "keep"]
              ELSE [err |-> ErrNil, log |-> LogNone, op |-> "delete"]

\* the release branch with one error for both faults
reserverDecide_oneError(id, look, reserve) ==
    IF reserve
    THEN IF look.exists
         THEN IF look.owner = id
              THEN [err |-> ErrNil, log |-> LogReserveOwned, op |-> "keep"]
              ELSE [err |-> ErrAlreadyReserved, log |-> LogNone, op |-> "keep"]
         ELSE [err |-> ErrNil, log |-> LogNone, op |-> "set"]
    ELSE IF ~look.exists
         THEN [err |-> ErrNotReserved, log |-> LogUnreserveNonReserved, op |-> "keep"]
         ELSE IF id # look.owner
              THEN [err |-> ErrNotReserved, log |-> LogUnreserveNonReserved, op |-> "keep"]
              ELSE [err |-> ErrNil, log |-> LogNone, op |-> "delete"]

\* the acquire branch writing the entry before it looks at the owner
reserverDecide_writeFirst(id, look, reserve) ==
    IF reserve
    THEN IF look.exists
         THEN IF look.owner = id
              THEN [err |-> ErrNil, log |-> LogReserveOwned, op |-> "keep"]
              ELSE [err |-> ErrAlreadyReserved, log |-> LogNone, op |-> "set"]
         ELSE [err |-> ErrNil, log |-> LogNone, op |-> "set"]
    ELSE IF ~look.exists
         THEN [err |-> ErrNotReserved, log |-> LogUnreserveNonReserved, op |-> "keep"]
         ELSE IF id # look.owner
              THEN [err |-> ErrNotOwned, log |-> LogUnreserveNonOwned, op |-> "keep"]
              ELSE [err |-> ErrNil, log |-> LogNone, op |-> "delete"]

\* The branches of the reservation callback after the map read: what the call
\* returns, what it logs and what it does to the table and to the gauge.
\*   op: "set" (p.reservations[addr] = subpool), "delete", or "keep"
reserverDecide(id, look, reserve) ==
    IF reserve
    THEN IF look.exists
         THEN IF look.owner = id
              THEN [err |-> ErrNil, log |-> LogReserveOwned, op |-> "keep"]
              ELSE [err |-> ErrAlreadyReserved, log |-> LogNone, op |-> "keep"]
         ELSE [err |-> ErrNil, log |-> LogNone, op |-> "set"]
    ELSE IF ~look.exists
         THEN [err |-> ErrNotReserved, log |-> LogUnreserveNonReserved, op |-> "keep"]
         ELSE IF id # look.owner
              THEN [err |-> ErrNotOwned, log |-> LogUnreserveNonOwned, op |-> "keep"]
              ELSE [err |-> ErrNil, log |-> LogNone, op |-> "delete"]

\* p.reservations[addr] = subpool
mapSet(res, addr, id) ==
    [a \in (DOMAIN res) \cup {addr} |-> IF a = addr THEN id ELSE res[a]]

\* delete(p.reservations, addr)
mapDelete(res, addr) ==
    [a \in (DOMAIN res) \ {addr} |-> res[a]]

applyOp(res, op, addr, id) ==
    CASE op = "set" -> mapSet(res, addr, id)
      [] op = "delete" -> mapDelete(res, addr)
      [] OTHER -> res

\* variant: the gauge counts every call that finds the table as it wants it
applyGauge_countKept(g, enabled, op, id) ==
    IF ~enabled THEN g
    ELSE CASE op = "delete" -> [g EXCEPT ![id] = @ - 1]
           [] OTHER -> [g EXCEPT ![id] = @ + 1]

\* metrics.GetOrRegisterGauge(m, nil).Inc(1) / .Dec(1), only if metrics.Enabled
applyGauge(g, enabled, op, id) ==
    IF ~enabled THEN g
    ELSE CASE op = "set" -> [g EXCEPT ![id] = @ + 1]
           [] op = "delete" -> [g EXCEPT ![id] = @ - 1]
           [] OTHER -> g

\* variant: Lock never blocks
lockFree_always(locked) == TRUE

\* p.reserveLock.Lock(): blocks while another call holds the lock
lockFree(locked) == ~locked

NoWait == [addr |-> 0, reserve |-> FALSE, free |-> FALSE]

\* p.reserveLock.Lock() returns in the call (addr, reserve) of sub-pool id
LockAcquire(id, addr, reserve) ==
    /\ rpc[id] = "idle"
    /\ lockFree(reserveLock)
    /\ reserveLock' = TRUE
    /\ rpc' = [rpc EXCEPT ![id] = "locked"]
    /\ rargs' = [rargs EXCEPT ![id] = [addr |-> addr, reserve |-> reserve]]
    /\ rbefore' = [rbefore EXCEPT ![id] = reservations]
    /\ UNCHANGED <<reservations, metricsEnabled, gauge, rlocal, rret, held, lastReleaser,
                   reacquired>>
    /\ UNCHANGED <<lvars, xvars>>

\* A sub-pool calls its reservation callback with (addr, reserve) and
\* p.reserveLock.Lock() returns.
ReserverLock(id, addr, reserve) ==
    /\ rwait[id] = NoWait
    /\ LockAcquire(id, addr, reserve)
    /\ UNCHANGED rwait

\* A sub-pool calls its reservation callback with (addr, reserve): the call
\* stands at p.reserveLock.Lock(), whoever holds the lock
ReserverCall(id, addr, reserve) ==
    /\ rpc[id] = "idle"
    /\ rwait[id] = NoWait
    /\ rwait' = [rwait EXCEPT ![id] = [addr |-> addr, reserve |-> reserve,
                                       free |-> ~lookup(reservations, addr).exists]]
    /\ UNCHANGED <<reservations, reserveLock, metricsEnabled, gauge, rpc, rargs, rlocal,
                   rret, rbefore, held, lastReleaser, reacquired>>
    /\ UNCHANGED <<lvars, xvars>>

\* p.reserveLock.Lock() returns in the call sub-pool id stands in
ReserverLockWaiting(id) ==
    /\ rwait[id] # NoWait
    /\ LockAcquire(id, rwait[id].addr, rwait[id].reserve)
    /\ UNCHANGED rwait

\* owner, exists := p.reservations[addr]
ReserverRead(id) ==
    /\ rpc[id] = "locked"
    /\ rlocal' = [rlocal EXCEPT ![id] = lookup(reservations, rargs[id].addr)]
    /\ rpc' = [rpc EXCEPT ![id] = "read"]
    /\ UNCHANGED <<reservations, reserveLock, metricsEnabled, gauge, rargs, rbefore,
                   rret, held, lastReleaser, reacquired, rwait>>
    /\ UNCHANGED <<lvars, xvars>>

\* the branches: the table and the gauge are updated, the result is fixed
ReserverUpdate(id) ==
    /\ rpc[id] = "read"
    /\ LET d == reserverDecide(id, rlocal[id], rargs[id].reserve)
           a == rargs[id].addr
       IN /\ reservations' = applyOp(reservations, d.op, a, id)
          /\ gauge' = applyGauge(gauge, metricsEnabled, d.op, id)
          /\ rret' = [rret EXCEPT ![id] = [err |-> d.err, log |-> d.log]]
          /\ held' = [held EXCEPT ![id] =
                        IF d.err # ErrNil THEN @
                        ELSE IF rargs[id].reserve THEN @ \cup {a} ELSE @ \ {a}]
          /\ lastReleaser' =
                IF d.err = ErrNil /\ ~rargs[id].reserve
                THEN [lastReleaser EXCEPT ![a] = id]
                ELSE lastReleaser
          /\ reacquired' =
                IF d.err = ErrNil /\ rargs[id].reserve /\ rlocal[id].exists
                THEN reacquired \cup {a}
                ELSE reacquired
    /\ rpc' = [rpc EXCEPT ![id] = "ret"]
    /\ UNCHANGED <<reserveLock, metricsEnabled, rargs, rbefore, rlocal, rwait>>
    /\ UNCHANGED <<lvars, xvars>>

\* defer p.reserveLock.Unlock(), and the call returns to the sub-pool
ReserverUnlock(id) ==
    /\ rpc[id] = "ret"
    /\ reserveLock' = FALSE
    /\ rpc' = [rpc EXCEPT ![id] = "idle"]
    /\ rargs' = [rargs EXCEPT ![id] = NoArgs]
    /\ rlocal' = [rlocal EXCEPT ![id] = NoLocal]
    /\ rret' = [rret EXCEPT ![id] = NoRet]
    /\ rbefore' = [rbefore EXCEPT ![id] = << >>]
    /\ reacquired' =
          IF rret[id].err = ErrNil /\ ~rargs[id].reserve
          THEN reacquired \ {rargs[id].addr}
          ELSE reacquired
    /\ rwait' = [rwait EXCEPT ![id] = NoWait]
    /\ UNCHANGED <<reservations, metricsEnabled, gauge, held, lastReleaser>>
    /\ UNCHANGED <<lvars, xvars>>

\* reservations: make(map[common.Address]SubPool) in New
ReserveInit ==
    /\ reservations = << >>
    /\ reserveLock = FALSE
    /\ metricsEnabled \in BOOLEAN
    /\ gauge = [i \in subpools |-> 0]
    /\ rpc = [i \in subpools |-> "idle"]
    /\ rargs = [i \in subpools |-> NoArgs]
    /\ rlocal = [i \in subpools |-> NoLocal]
    /\ rret = [i \in subpools |-> NoRet]
    /\ rbefore = [i \in subpools |-> << >>]
    /\ held = [i \in subpools |-> {}]
    /\ lastReleaser = [a \in Accounts |-> -1]
    /\ reacquired = {}
    /\ rwait = [i \in subpools |-> NoWait]

\* sub-pools that call for accounts at the same time: every call is an acquire
RaceNext ==
    \/ \E id \in subpools, addr \in Accounts : ReserverCall(id, addr, TRUE)
    \/ \E id \in subpools : ReserverLockWaiting(id)
    \/ \E id \in subpools : ReserverRead(id)
    \/ \E id \in subpools : ReserverUpdate(id)
    \/ \E id \in subpools : ReserverUnlock(id)

ReserveNext ==
    \/ \E id \in subpools, addr \in Accounts, reserve \in BOOLEAN :
          ReserverLock(id, addr, reserve)
    \/ \E id \in subpools : ReserverRead(id)
    \/ \E id \in subpools : ReserverUpdate(id)
    \/ \E id \in subpools : ReserverUnlock(id)

\* -------------------------------------------------------------- Add, Nonce

\* core.ErrTxTypeNotSupported, an error value
ErrTxTypeNotSupported == [err |-> "transaction type not supported"]

NoCall == [op |-> "none"]

\* A transaction is named by its position in the batch; accept is the set of
\* sub-pools whose Filter accepts its kind.
Tx(i, accept) == [id |-> i, accept |-> accept]

\* the batches handed to Add: up to MaxTxs transactions of any kinds
Kinds == SUBSET subpools
KindSeqs == UNION {[1 .. n -> Kinds] : n \in 0 .. MaxTxs}
Batch(kinds) == [i \in 1 .. Len(kinds) |-> Tx(i, kinds[i])]

\* subpool.Filter(tx.Tx) of sub-pool j
Filter(j, tx) == j \in tx.accept

\* variant: the range over the sub-pools goes on after the first that accepts
RECURSIVE route_noBreak(_, _)
route_noBreak(tx, j) ==
    IF j >= NumSubPools THEN [split |-> -1, to |-> {}]
    ELSE LET r == route_noBreak(tx, j + 1)
         IN  IF Filter(j, tx)
             THEN [split |-> IF r.split = -1 THEN j ELSE r.split, to |-> r.to \cup {j}]
             ELSE r

\* splits[i] = -1; for j, subpool := range p.subpools { if subpool.Filter(tx.Tx) {
\*   txsets[j] = append(txsets[j], tx); splits[i] = j; break } }
\* from sub-pool j on: the split recorded for tx and the sub-pools whose txset
\* tx is appended to
RECURSIVE route(_, _)
route(tx, j) ==
    IF j >= NumSubPools THEN [split |-> -1, to |-> {}]
    ELSE IF Filter(j, tx) THEN [split |-> j, to |-> {j}]
    ELSE route(tx, j + 1)

\* splits after the range over txs
splitsOf(txs) == [i \in 1 .. Len(txs) |-> route(txs[i], 0).split]

\* txsets after the range over txs: appends keep the order of txs
txsetsOf(txs) ==
    [j \in subpools |-> SelectSeq(txs, LAMBDA tx : j \in route(tx, 0).to)]

\* p.subpools[j].Add(txset, local, sync): one result per transaction handed
\* over. Add never looks into a result, so the n-th result of sub-pool j is
\* named by what the sub-pool was given.
subpoolAdd(j, txset, local, sync) ==
    [n \in 1 .. Len(txset) |->
        [pool |-> j, nth |-> n, tx |-> txset[n].id, local |-> local, sync |-> sync]]

\* errsets[i] = p.subpools[i].Add(txsets[i], local, sync), for every sub-pool
errsetsOf(txs, local, sync) ==
    [j \in subpools |-> subpoolAdd(j, txsetsOf(txs)[j], local, sync)]

\* variant: the sub-pool's error list is not advanced
popErr_keep(errsets, split) == errsets

\* errsets[split] = errsets[split][1:]
popErr(errsets, split) == [errsets EXCEPT ![split] = Tail(@)]

\* variant: the first unsupported transaction ends the batch, it and all the
\* transactions after it get the unsupported-kind error
RECURSIVE mergeErrs_abort(_, _)
mergeErrs_abort(splits, errsets) ==
    IF splits = << >> THEN << >>
    ELSE IF Head(splits) = -1
         THEN [i \in 1 .. Len(splits) |-> ErrTxTypeNotSupported]
         ELSE <<Head(errsets[Head(splits)])>>
              \o mergeErrs_abort(Tail(splits), popErr(errsets, Head(splits)))

\* for i, split := range splits { if split == -1 { errs[i] = ErrTxTypeNotSupported;
\*   continue }; errs[i] = errsets[split][0]; errsets[split] = errsets[split][1:] }
RECURSIVE mergeErrs(_, _)
mergeErrs(splits, errsets) ==
    IF splits = << >> THEN << >>
    ELSE IF Head(splits) = -1
         THEN <<ErrTxTypeNotSupported>> \o mergeErrs(Tail(splits), errsets)
         ELSE <<Head(errsets[Head(splits)])>>
              \o mergeErrs(Tail(splits), popErr(errsets, Head(splits)))

\* TxPool.Add(txs, local, sync)
Add(txs, local, sync) == mergeErrs(splitsOf(txs), errsetsOf(txs, local, sync))

\* a call of Add, from entry to return: call keeps what it was given, what it
\* handed to the sub-pools and what it returned
AddCall(kinds, local, sync) ==
    /\ call = NoCall
    /\ call' = [op |-> "Add", txs |-> Batch(kinds), local |-> local, sync |-> sync,
                txsets |-> txsetsOf(Batch(kinds)),
                errs |-> Add(Batch(kinds), local, sync)]
    /\ UNCHANGED <<rvars, lvars, nvars, gvars, yvars>>

\* variant: the nonce of the sub-pool asked last
nonceStep_last(nonce, next) == next

\* if next := subpool.Nonce(addr); nonce < next { nonce = next }
nonceStep(nonce, next) == IF nonce < next THEN next ELSE nonce

\* for _, subpool := range p.subpools, from sub-pool j on; reports[j] is what
\* sub-pool j's Nonce(addr) returns
RECURSIVE nonceFrom(_, _, _)
nonceFrom(reports, j, nonce) ==
    IF j >= NumSubPools THEN nonce
    ELSE nonceFrom(reports, j + 1, nonceStep(nonce, reports[j]))

\* TxPool.Nonce(addr): var nonce uint64, then the range
Nonce(reports) == nonceFrom(reports, 0, 0)

\* a call of Nonce, from entry to return
NonceCall(addr, reports) ==
    /\ call = NoCall
    /\ call' = [op |-> "Nonce", addr |-> addr, reports |-> reports,
                nonce |-> Nonce(reports)]
    /\ UNCHANGED <<rvars, lvars, nvars, gvars, yvars>>

\* ---- the lookup queries: Has, Get, Status

\* TxStatus: TxStatusUnknown TxStatus = iota, TxStatusQueued, TxStatusPending
TxStatusUnknown == 0
TxStatusQueued == 1
TxStatusPending == 2
Statuses == {TxStatusUnknown, TxStatusQueued, TxStatusPending}

\* the nil *Transaction; a transaction a sub-pool returns is named 1 .. MaxTxs
NilTx == 0
TxPtrs == 0 .. MaxTxs

\* TxPool.Has: for _, subpool := range p.subpools, from sub-pool j on;
\* reports[j] is what sub-pool j's Has(hash) returns; asked counts the
\* sub-pools the range has called
RECURSIVE hasFrom(_, _)
hasFrom(reports, j) ==
    IF j >= NumSubPools THEN [ret |-> FALSE, asked |-> j]
    ELSE IF reports[j] THEN [ret |-> TRUE, asked |-> j + 1]
    ELSE hasFrom(reports, j + 1)

\* variant: the range goes on after a hit and the last sub-pool's answer stays
RECURSIVE getFrom_last(_, _)
getFrom_last(reports, j) ==
    IF j >= NumSubPools THEN [ret |-> NilTx, asked |-> j]
    ELSE LET rest == getFrom_last(reports, j + 1)
         IN  IF rest.ret # NilTx THEN rest
             ELSE [ret |-> reports[j], asked |-> rest.asked]

\* TxPool.Get: if tx := subpool.Get(hash); tx != nil { return tx } ... return nil
RECURSIVE getFrom(_, _)
getFrom(reports, j) ==
    IF j >= NumSubPools THEN [ret |-> NilTx, asked |-> j]
    ELSE IF reports[j] # NilTx THEN [ret |-> reports[j], asked |-> j + 1]
    ELSE getFrom(reports, j + 1)

\* TxPool.Status: if status := subpool.Status(hash); status != TxStatusUnknown
\* { return status } ... return TxStatusUnknown
RECURSIVE statusFrom(_, _)
statusFrom(reports, j) ==
    IF j >= NumSubPools THEN [ret |-> TxStatusUnknown, asked |-> j]
    ELSE IF reports[j] # TxStatusUnknown THEN [ret |-> reports[j], asked |-> j + 1]
    ELSE statusFrom(reports, j + 1)

\* a call of Has, from entry to return
HasCall(hash, reports) ==
    /\ call = NoCall
    /\ LET r == hasFrom(reports, 0)
       IN call' = [op |-> "Has", hash |-> hash, reports |-> reports,
                   ret |-> r.ret, asked |-> r.asked]
    /\ UNCHANGED <<rvars, lvars, nvars, gvars, yvars>>

\* a call of Get, from entry to return
GetCall(hash, reports) ==
    /\ call = NoCall
    /\ LET r == getFrom(reports, 0)
       IN call' = [op |-> "Get", hash |-> hash, reports |-> reports,
                   ret |-> r.ret, asked |-> r.asked]
    /\ UNCHANGED <<rvars, lvars, nvars, gvars, yvars>>

\* a call of Status, from entry to return
StatusCall(hash, reports) ==
    /\ call = NoCall
    /\ LET r == statusFrom(reports, 0)
       IN call' = [op |-> "Status", hash |-> hash, reports |-> reports,
                   ret |-> r.ret, asked |-> r.asked]
    /\ UNCHANGED <<rvars, lvars, nvars, gvars, yvars>>

\* the caller has taken the result: the next call can be made
CallReturn ==
    /\ call # NoCall
    /\ call' = NoCall
    /\ UNCHANGED <<rvars, lvars, nvars, gvars, yvars>>

CallInit == call = NoCall

CallNext ==
    \/ \E kinds \in KindSeqs, local \in BOOLEAN, sync \in BOOLEAN :
          AddCall(kinds, local, sync)
    \/ \E addr \in Accounts, reports \in [subpools -> 0 .. MaxNonce] :
          NonceCall(addr, reports)
    \/ \E hash \in 1 .. MaxHashes, reports \in [subpools -> BOOLEAN] :
          HasCall(hash, reports)
    \/ \E hash \in 1 .. MaxHashes, reports \in [subpools -> TxPtrs] :
          GetCall(hash, reports)
    \/ \E hash \in 1 .. MaxHashes, reports \in [subpools -> Statuses] :
          StatusCall(hash, reports)
    \/ CallReturn

\* --------------------------------------------------------------------- New

\* the error a failing Init of sub-pool i returns, and the nil error
InitErr(i) == [msg |-> "init failed", sub |-> i]
NilErr == [msg |-> ErrNil, sub |-> -1]
NoCtorRet == [pool |-> FALSE, err |-> [msg |-> "", sub |-> -1]]

\* a call New makes on sub-pool k: Init with the head it passes, or Close
CtorEvent(ev, k, head) == [ev |-> ev, sub |-> k, head |-> head]

\* for j := i - 1
unwindFrom(i) == i - 1

\* j >= 0 fails
unwindDone(j) == j < 0

\* variant: the sub-pools below i are closed from 0 upwards
unwindSub_forward(i, j) == i - 1 - j

\* subpools[j].Close(): the sub-pool the unwinding of a failure at i closes
\* when its index stands at j
unwindSub(i, j) == j

\* chain.CurrentBlock(): the header of the chain's current block; a pointer
\* no head event carries (headOf), named by the negated height h
currentBlock(h) == 0 - h

\* variant: the loop is handed the chain's head as it is when the loop starts
loopHead_current(captured, current) == current

\* pool.loop(head, newHeadCh): the loop is handed the head New captured at its
\* start (captured), not the chain's head at that moment (current)
loopHead(captured, current) == captured

\* the chain moves forward, also while New runs
ChainAdvance ==
    /\ chainHead < MaxHeads
    /\ chainHead' = chainHead + 1
    /\ UNCHANGED <<ctorPc, ctorHead, ctorIdx, ctorJ, ctorTrace, ctorRet>>
    /\ UNCHANGED ctorN
    /\ UNCHANGED <<rvars, lvars, cvars, gvars, yvars>>

\* head := chain.CurrentBlock(); pool := &TxPool{...}
NewCurrentBlock ==
    /\ ctorPc = "head"
    /\ ctorHead' = currentBlock(chainHead)
    /\ ctorIdx' = 0
    /\ ctorPc' = "init"
    /\ UNCHANGED <<chainHead, ctorJ, ctorTrace, ctorRet>>
    /\ UNCHANGED ctorN
    /\ UNCHANGED <<rvars, lvars, cvars, gvars, yvars>>

\* subpool.Init(gasTip, head, pool.reserver(i, subpool)) on sub-pool i; fails
\* says whether it returned an error, which starts the unwinding
NewInitSubpool(fails) ==
    /\ ctorPc = "init"
    /\ ctorIdx < ctorN
    /\ ctorTrace' = Append(ctorTrace,
                           CtorEvent(IF fails THEN "initErr" ELSE "init", ctorIdx, ctorHead))
    /\ IF fails
       THEN /\ ctorPc' = "unwind"
            /\ ctorJ' = unwindFrom(ctorIdx)
            /\ UNCHANGED ctorIdx
       ELSE /\ ctorIdx' = ctorIdx + 1
            /\ UNCHANGED <<ctorPc, ctorJ>>
    /\ UNCHANGED <<chainHead, ctorHead, ctorRet>>
    /\ UNCHANGED ctorN
    /\ UNCHANGED <<rvars, lvars, cvars, gvars, yvars>>

\* subpools[j].Close(); j--   (what Close returns is dropped)
NewUnwindClose(fails) ==
    /\ ctorPc = "unwind"
    /\ ~unwindDone(ctorJ)
    /\ ctorTrace' = Append(ctorTrace,
                           CtorEvent(IF fails THEN "closeErr" ELSE "close",
                                     unwindSub(ctorIdx, ctorJ), ctorHead))
    /\ ctorJ' = ctorJ - 1
    /\ UNCHANGED <<ctorPc, chainHead, ctorHead, ctorIdx, ctorRet>>
    /\ UNCHANGED ctorN
    /\ UNCHANGED <<rvars, lvars, cvars, gvars, yvars>>

\* return nil, err
NewFail ==
    /\ ctorPc = "unwind"
    /\ unwindDone(ctorJ)
    /\ ctorRet' = [pool |-> FALSE, err |-> InitErr(ctorIdx)]
    /\ ctorPc' = "returned"
    /\ UNCHANGED <<chainHead, ctorHead, ctorIdx, ctorJ, ctorTrace>>
    /\ UNCHANGED ctorN
    /\ UNCHANGED <<rvars, lvars, cvars, gvars, yvars>>

\* the range over the sub-pools is over:
\* newHeadSub = chain.SubscribeChainHeadEvent(newHeadCh)
NewSubscribe ==
    /\ ctorPc = "init"
    /\ ctorIdx = ctorN
    /\ newHeadSub' = TRUE
    /\ ctorPc' = "start"
    /\ UNCHANGED <<loopPc, oldHead, newHead, resetBusy, errc, notified, resets, trace,
                   subsClosed, closePc, closeIdx, closeErrs, closeRet>>
    /\ UNCHANGED <<chainHead, ctorHead, ctorIdx, ctorJ, ctorTrace, ctorRet>>
    /\ UNCHANGED ctorN
    /\ UNCHANGED <<rvars, cvars, gvars, yvars>>

\* go func() { pool.loop(head, newHeadCh); ... }(): the loop starts with
\* oldHead = head and newHead = oldHead; return pool, nil
NewStartLoop ==
    /\ ctorPc = "start"
    /\ loopPc' = "check"
    /\ oldHead' = loopHead(ctorHead, currentBlock(chainHead))
    /\ newHead' = loopHead(ctorHead, currentBlock(chainHead))
    /\ ctorRet' = [pool |-> TRUE, err |-> NilErr]
    /\ ctorPc' = "returned"
    /\ UNCHANGED <<resetBusy, errc, notified, resets, trace, newHeadSub,
                   subsClosed, closePc, closeIdx, closeErrs, closeRet>>
    /\ UNCHANGED <<chainHead, ctorHead, ctorIdx, ctorJ, ctorTrace>>
    /\ UNCHANGED ctorN
    /\ UNCHANGED <<rvars, cvars, gvars, yvars>>

\* New is called, with a list of one or more sub-pools
CtorStart ==
    /\ ctorPc = "head"
    /\ ctorN \in 1 .. MaxNewSubPools
    /\ chainHead = 0
    /\ ctorHead = 0
    /\ ctorIdx = 0
    /\ ctorJ = 0
    /\ ctorTrace = << >>
    /\ ctorRet = NoCtorRet

\* New has returned a pool: every Init succeeded, with the head named 0
CtorInit ==
    /\ ctorPc = "returned"
    /\ ctorN = NumSubPools
    /\ chainHead = 0
    /\ ctorHead = 0
    /\ ctorIdx = NumSubPools
    /\ ctorJ = 0
    /\ ctorTrace = [k \in 1 .. NumSubPools |-> CtorEvent("init", k - 1, 0)]
    /\ ctorRet = [pool |-> TRUE, err |-> NilErr]

\* the chain moves forward while New runs
ChainAdvanceDuringNew ==
    /\ ctorPc # "returned"
    /\ ChainAdvance

NewNext ==
    \/ ChainAdvance
    \/ NewCurrentBlock
    \/ \E fails \in BOOLEAN : NewInitSubpool(fails)
    \/ \E fails \in BOOLEAN : NewUnwindClose(fails)
    \/ NewFail
    \/ NewSubscribe
    \/ NewStartLoop

\* ---------------------------------------------------------- validator gate

Nodes == 1 .. MaxNodes
GossipTxs == 1 .. MaxPoolTxs

\* the chains the test validator state knows, and testChainID, the chain the
\* tests serve, which it does not know
PlatformChainID == "P"
testXChainID == "testx"
testCChainID == "cchaintest"
testChainID == "testchain"
Chains == {PlatformChainID, testXChainID, testCChainID, testChainID}
PrimaryNetworkID == "primary"
ErrUnknownChain == "unknown chain"
ErrLookup == "validator set lookup failed"

\* Weight of a validator: 1 in the gossip test; a present validator may weigh 0
Weights == {0, 1}

\* map[ids.NodeID]*validators.GetValidatorOutput, as node -> weight
ValidatorMaps == UNION {[D -> Weights] : D \in SUBSET Nodes}
EmptyValidators == << >>

\* GetCurrentHeightF: the height of the validator state (0 in the test state)
GetCurrentHeightF(height) == [height |-> height, err |-> ErrNil]

\* GetSubnetIDF: subnetID, ok := map[...]{...}[chainID];
\*   if !ok { return ids.Empty, errors.New("unknown chain") }; return subnetID, nil
GetSubnetIDF(chainID) ==
    IF chainID \in {PlatformChainID, testXChainID, testCChainID}
    THEN [subnet |-> PrimaryNetworkID, err |-> ErrNil]
    ELSE [subnet |-> "", err |-> ErrUnknownChain]

\* GetValidatorSetF(ctx, height, subnetID): the set of the validator state,
\* whatever the height and the subnet, and a nil error (the empty set in the
\* test state, one validator of weight 1 in the gossip test)
GetValidatorSetF(set) == [set |-> set, err |-> ErrNil]

\* the errors a query of a validator-state provider can fail with: the error
\* a lookup of a chain the provider does not know returns, or another
LookupErrs == ({GetSubnetIDF(c).err : c \in Chains} \ {ErrNil}) \cup {ErrLookup}

\* GetValidators(height, subnet) of a validator-state provider: the query
\* fails with err and gives no set, or gives the set the state holds
GetValidators(set, err) ==
    IF err # ErrNil THEN [set |-> EmptyValidators, err |-> err]
    ELSE GetValidatorSetF(set)

\* variant: every node is a member
validatorSetHas_any(set, nodeID) == TRUE

\* func (v *validatorSet) Has(ctx, nodeID) bool { return v.set.Contains(nodeID) }
validatorSetHas(set, nodeID) == nodeID \in set

\* the gate's lookup for a request: the current height, then the validator
\* set of the gate's own subnet at that height, with the error of that query
gateLookup(height, set, err) ==
    LET h == GetCurrentHeightF(height)
        v == GetValidators(set, err)
    IN  [height |-> h.height, set |-> v.set, err |-> v.err]

\* variant: a failed lookup lets every node through
gateSet_failOpen(res) == IF res.err # ErrNil THEN Nodes ELSE DOMAIN res.set

\* the node set the gate tests the requester against: the nodes of the set the
\* lookup returned, no node when the lookup failed
gateSet(res) == IF res.err # ErrNil THEN {} ELSE DOMAIN res.set

\* PullGossipResponse: the held transactions that the request's filter does not show
pullResponse(txs, filter) == [gossip |-> txs \ filter]

NoLookup == [height |-> 0, set |-> EmptyValidators, err |-> ErrNil]
NoReq == [pc |-> "idle", node |-> 0, filter |-> {}, lookup |-> NoLookup,
          admitted |-> FALSE, responses |-> << >>]

\* the validator state moves to the next height, with any validator set
ValidatorsChange(m) ==
    /\ valHeight < MaxHeight
    /\ valHeight' = valHeight + 1
    /\ valSet' = m
    /\ UNCHANGED <<mempool, req>>
    /\ UNCHANGED <<rvars, lvars, cvars, nvars, yvars>>

\* a transaction enters the responder's pool
MempoolAdd(tx) ==
    /\ tx \notin mempool
    /\ mempool' = mempool \cup {tx}
    /\ UNCHANGED <<valHeight, valSet, req>>
    /\ UNCHANGED <<rvars, lvars, cvars, nvars, yvars>>

\* AppRequest: a pull request of nodeID arrives, with its filter
AppRequest(nodeID, filter) ==
    /\ req.pc = "idle"
    /\ req' = [NoReq EXCEPT !.pc = "gate", !.node = nodeID, !.filter = filter]
    /\ UNCHANGED <<valHeight, valSet, mempool>>
    /\ UNCHANGED <<rvars, lvars, cvars, nvars, yvars>>

\* the gate queries the validator set of the current height; the query
\* returns the set (err = ErrNil) or fails with err
GateLookup(err) ==
    /\ req.pc = "gate"
    /\ req' = [req EXCEPT !.pc = "decide",
                          !.lookup = gateLookup(valHeight, valSet, err)]
    /\ UNCHANGED <<valHeight, valSet, mempool>>
    /\ UNCHANGED <<rvars, lvars, cvars, nvars, yvars>>

\* the gate admits the requester or drops the request without a response
GateDecide ==
    /\ req.pc = "decide"
    /\ LET ok == validatorSetHas(gateSet(req.lookup), req.node)
       IN  req' = [req EXCEPT !.admitted = ok, !.pc = IF ok THEN "respond" ELSE "done"]
    /\ UNCHANGED <<valHeight, valSet, mempool>>
    /\ UNCHANGED <<rvars, lvars, cvars, nvars, yvars>>

\* the responder answers an admitted request
Respond ==
    /\ req.pc = "respond"
    /\ req' = [req EXCEPT !.responses = Append(@, pullResponse(mempool, req.filter)),
                          !.pc = "done"]
    /\ UNCHANGED <<valHeight, valSet, mempool>>
    /\ UNCHANGED <<rvars, lvars, cvars, nvars, yvars>>

\* the request is over: the next one can arrive
RequestDone ==
    /\ req.pc = "done"
    /\ req' = NoReq
    /\ UNCHANGED <<valHeight, valSet, mempool>>
    /\ UNCHANGED <<rvars, lvars, cvars, nvars, yvars>>

\* the test validator state: height 0 and an empty validator set; nothing held
GossipInit ==
    /\ valHeight = 0
    /\ valSet = EmptyValidators
    /\ mempool = {}
    /\ req = NoReq

GossipNext ==
    \/ \E m \in ValidatorMaps : ValidatorsChange(m)
    \/ \E tx \in GossipTxs : MempoolAdd(tx)
    \/ \E nodeID \in Nodes, filter \in SUBSET GossipTxs : AppRequest(nodeID, filter)
    \/ \E err \in {ErrNil} \cup LookupErrs : GateLookup(err)
    \/ GateDecide
    \/ Respond
    \/ RequestDone

\* ------------------------------------------------------- GasTip, SetGasTip

Tips == 0 .. MaxTip
NilPointer == << >>
NoTipRet == [op |-> "none", val |-> 0, panic |-> FALSE, last |-> << >>]

\* new(big.Int).Set(p.gasTip.Load()): the value the pointer points to; Set
\* dereferences its argument, a nil pointer makes it panic
loadTip(ptr) == IF ptr = NilPointer THEN [val |-> 0, panic |-> TRUE]
                ELSE [val |-> ptr[1], panic |-> FALSE]

\* GasTip(), a single atomic load; last keeps the tip of the most recent
\* SetGasTip call at that moment
GasTipCall ==
    /\ LET r == loadTip(gasTip)
       IN  tipRet' = [op |-> "GasTip", val |-> r.val, panic |-> r.panic,
                      last |-> lastSetTip]
    /\ UNCHANGED <<initGasTip, gasTip, subGasTip, setPc, setTip, setIdx, lastSetTip>>
    /\ UNCHANGED <<basevars, mvars, pvars>>

\* SetGasTip(tip): p.gasTip.Store(new(big.Int).Set(tip))
SetGasTipStore(tip) ==
    /\ setPc = "idle"
    /\ gasTip' = <<tip>>
    /\ setTip' = tip
    /\ setIdx' = 0
    /\ lastSetTip' = <<tip>>
    /\ setPc' = "forward"
    /\ UNCHANGED <<initGasTip, subGasTip, tipRet>>
    /\ UNCHANGED <<basevars, mvars, pvars>>

\* for _, subpool := range p.subpools { subpool.SetGasTip(tip) }
SetGasTipForward ==
    /\ setPc = "forward"
    /\ setIdx < NumSubPools
    /\ subGasTip' = [subGasTip EXCEPT ![setIdx] = setTip]
    /\ setIdx' = setIdx + 1
    /\ UNCHANGED <<initGasTip, gasTip, setPc, setTip, lastSetTip, tipRet>>
    /\ UNCHANGED <<basevars, mvars, pvars>>

\* the range is over: SetGasTip returns
SetGasTipReturn ==
    /\ setPc = "forward"
    /\ setIdx = NumSubPools
    /\ setPc' = "idle"
    /\ UNCHANGED <<initGasTip, gasTip, subGasTip, setTip, setIdx, lastSetTip, tipRet>>
    /\ UNCHANGED <<basevars, mvars, pvars>>

\* after New(gasTip, chain, subpools): every sub-pool's Init was given gasTip;
\* the TxPool literal sets subpools, reservations and quit, p.gasTip stays nil
TipInitWith(tip) ==
    /\ initGasTip = tip
    /\ gasTip = NilPointer
    /\ subGasTip = [k \in subpools |-> tip]
    /\ setPc = "idle"
    /\ setTip = 0
    /\ setIdx = 0
    /\ lastSetTip = NilPointer
    /\ tipRet = NoTipRet

TipInit == TipInitWith(1)

TipNext ==
    \/ GasTipCall
    \/ \E tip \in Tips : SetGasTipStore(tip)
    \/ SetGasTipForward
    \/ SetGasTipReturn

\* ------------------------------------------------------------------ Mempool

Hashes == 1 .. MaxHashes
Salts == 0 .. MaxSalt
ErrDuplicate == [msg |-> "duplicate", sub |-> -1]
ErrInvalid == [msg |-> "failed validation", sub |-> -1]

\* the membership filter: one hash function, salted; two hashes can share a bit
bitOf(hash, salt) == (hash + salt) % FilterBits
FilterBitSets == SUBSET (0 .. (FilterBits - 1))
EmptyFilter(salt) == [salt |-> salt, bits |-> {}]
filterHas(f, hash) == bitOf(hash, f.salt) \in f.bits

\* variant: the insertion leaves the filter as it was
filterAdd_skip(f, hash) == f

filterAdd(f, hash) == [f EXCEPT !.bits = @ \cup {bitOf(hash, f.salt)}]

\* the hashes in storage; Has(hash)
storedHashes(store) == {store[i].tx : i \in DOMAIN store}
mempoolHas(store, hash) == hash \in storedHashes(store)
copies(store, hash) == Cardinality({i \in DOMAIN store : store[i].tx = hash})

\* BuildFilter: a fresh filter over the current contents, under a new salt
BuildFilter(store, salt) ==
    [salt |-> salt, bits |-> {bitOf(h, salt) : h \in storedHashes(store)}]

\* variant: a filter match alone makes a duplicate
isDuplicate_filterOnly(store, f, hash) == filterHas(f, hash)

\* duplicate: the hash matches the filter and is confirmed present in storage
isDuplicate(store, f, hash) == filterHas(f, hash) /\ mempoolHas(store, hash)

\* entry i has lower priority than entry j: remote before local, oldest
\* before newest
lowerPriority(store, i, j) ==
    \/ ~store[i].local /\ store[j].local
    \/ store[i].local = store[j].local /\ i < j

\* variant: the oldest entry goes first, whatever its class
lowest_oldest(store) == 1

lowest(store) ==
    CHOOSE i \in DOMAIN store : \A j \in DOMAIN store \ {i} : lowerPriority(store, i, j)

removeAt(store, i) == SubSeq(store, 1, i - 1) \o SubSeq(store, i + 1, Len(store))

\* evicts lowest-priority entries until storage is back under budget
RECURSIVE evict(_, _)
evict(store, cap) ==
    IF Len(store) <= cap THEN store
    ELSE evict(removeAt(store, lowest(store)), cap)

\* Add(tx, isLocal): the duplicate check, validation (ok is its outcome),
\* insertion, filter update, eviction with the filter rebuilt under salt
addTx(store, f, hash, local, ok, salt) ==
    IF isDuplicate(store, f, hash)
    THEN [err |-> ErrDuplicate, store |-> store, filter |-> f, full |-> << >>]
    ELSE IF ~ok
    THEN [err |-> ErrInvalid, store |-> store, filter |-> f, full |-> << >>]
    ELSE LET full == Append(store, [tx |-> hash, local |-> local])
             kept == evict(full, MaxCap)
         IN  [err |-> NilErr, store |-> kept,
              filter |-> IF kept = full THEN filterAdd(f, hash)
                         ELSE BuildFilter(kept, salt),
              full |-> full]

NoMpRet == [op |-> "none", tx |-> 0, local |-> FALSE, err |-> NilErr,
            full |-> << >>, fp |-> FALSE]

\* what an insertion leaves in mpRet: full is storage with the new entry
\* before eviction, fp says the filter matched a hash that was not stored
addRet(hash, local, r) ==
    [op |-> "Add", tx |-> hash, local |-> local, err |-> r.err, full |-> r.full,
     fp |-> filterHas(mpFilter, hash) /\ ~mempoolHas(mpStore, hash)]

\* no transaction is being followed
NoChain == [tx |-> 0, paths |-> << >>]

\* inserted follows a transaction while it is in storage
stillStored(ins, store) == IF mempoolHas(store, ins.tx) THEN ins ELSE NoChain

NoHret == [handler |-> "none"]

\* an insertion of hash through the path via reported err: the insertions
\* of one transaction in a row are kept, once per path
recordVia(ins, hash, via, err) ==
    IF ins.tx # hash THEN [tx |-> hash, paths |-> <<[via |-> via, err |-> err]>>]
    ELSE IF \E i \in DOMAIN ins.paths : ins.paths[i].via = via THEN ins
    ELSE [ins EXCEPT !.paths = Append(@, [via |-> via, err |-> err])]

\* Mempool.Add(tx), the non-local insertion, called directly
AddRemoteTx(hash, ok, salt) ==
    /\ LET r == addTx(mpStore, mpFilter, hash, FALSE, ok, salt)
       IN  /\ mpStore' = r.store
           /\ mpFilter' = r.filter
           /\ mpRet' = addRet(hash, FALSE, r)
           /\ inserted' = stillStored(inserted, r.store)
    /\ hret' = NoHret
    /\ UNCHANGED <<kind, toGossip, lastPush, pull>>
    /\ UNCHANGED <<basevars, tvars>>

\* the direct local submission: the insertion with the local flag, its
\* error returned to the submitter
LocalInsert(hash, ok, salt) ==
    LET r == addTx(mpStore, mpFilter, hash, TRUE, ok, salt)
    IN  /\ mpStore' = r.store
        /\ mpFilter' = r.filter
        /\ mpRet' = addRet(hash, TRUE, r)
        /\ inserted' = stillStored(IF r.err = ErrInvalid THEN inserted
                                   ELSE recordVia(inserted, hash, "local", r.err),
                                   r.store)
        /\ hret' = NoHret

\* Mempool.AddLocalTx(tx)
AddLocalTx(hash, ok, salt) ==
    /\ LocalInsert(hash, ok, salt)
    /\ UNCHANGED <<kind, toGossip, lastPush, pull>>
    /\ UNCHANGED <<basevars, tvars>>

\* a stored transaction is included in a block and leaves storage; the
\* filter keeps its bits
RemoveTx(hash) ==
    /\ mempoolHas(mpStore, hash)
    /\ mpStore' = SelectSeq(mpStore, LAMBDA e : e.tx # hash)
    /\ mpRet' = [NoMpRet EXCEPT !.op = "Remove", !.tx = hash]
    /\ inserted' = stillStored(inserted, mpStore')
    /\ hret' = NoHret
    /\ UNCHANGED mpFilter
    /\ UNCHANGED <<kind, toGossip, lastPush, pull>>
    /\ UNCHANGED <<basevars, tvars>>

\* the periodic rebuild of the filter over the current contents
ResetFilter(salt) ==
    /\ mpFilter' = BuildFilter(mpStore, salt)
    /\ mpRet' = [NoMpRet EXCEPT !.op = "Reset"]
    /\ hret' = NoHret
    /\ UNCHANGED mpStore
    /\ UNCHANGED <<kind, toGossip, lastPush, inserted, pull>>
    /\ UNCHANGED <<basevars, tvars>>

MempoolInitWith(salt) ==
    /\ mpStore = << >>
    /\ mpFilter = EmptyFilter(salt)
    /\ mpRet = NoMpRet

MempoolInit == MempoolInitWith(0)

MempoolNext ==
    \/ \E hash \in Hashes, ok \in BOOLEAN, salt \in Salts : AddRemoteTx(hash, ok, salt)
    \/ \E hash \in Hashes, ok \in BOOLEAN, salt \in Salts : AddLocalTx(hash, ok, salt)
    \/ \E hash \in Hashes : RemoveTx(hash)
    \/ \E salt \in Salts : ResetFilter(salt)

\* the gossip coordinator of ordinary transactions at rest: nothing queued,
\* nothing sent, no pull cycle under way
Peers == 1 .. MaxPeers
NoPush == [proto |-> "", gossip |-> << >>]
NoPull == [pc |-> "idle", sent |-> 0, outcome |-> "none"]
CoordInitWith(k) ==
    /\ kind = k
    /\ toGossip = << >>
    /\ lastPush = NoPush
    /\ hret = NoHret
    /\ inserted = NoChain
    /\ pull = [p \in Peers |-> NoPull]

CoordInit == CoordInitWith("ordinary")

\* ------------------------------------------------------- gossip coordinator

GossipKinds == {"ordinary", "atomic"}

\* the protocol identifier a message of the kind is prefixed with
handlerID(k) == IF k = "atomic" THEN "AtomicTxGossipHandlerID" ELSE "TxGossipHandlerID"

hashesOf(q) == {q[i] : i \in DOMAIN q}

\* the transactions of one message: up to MaxMsg hashes, or none
Gossips == UNION {[1 .. n -> Hashes] : n \in 0 .. MaxMsg}

\* the transactions of one inbound push message: up to MaxPushMsg hashes
PushGossips == UNION {[1 .. n -> Hashes] : n \in 0 .. MaxPushMsg}

\* variant: the handler hands an insertion's error on to its caller
handlerErr_report(err) == err

\* what the handler of an inbound message reports for an insertion that
\* returned err: duplicates and rejected transactions are dropped silently
handlerErr(err) == NilErr

\* feeds the transactions of an inbound message, in order, through the
\* non-local insertion; valid holds the hashes that pass validation. The log
\* keeps per transaction whether it was unseen and valid, the insertion's
\* error and what the insertion evicted
RECURSIVE insertAll(_, _, _, _, _)
insertAll(st, gossip, valid, salt, via) ==
    IF gossip = << >> THEN st
    ELSE LET h == Head(gossip)
             r == addTx(st.store, st.filter, h, FALSE, h \in valid, salt)
             ins1 == IF r.err = ErrInvalid THEN st.ins
                     ELSE recordVia(st.ins, h, via, handlerErr(r.err))
         IN  insertAll([store |-> r.store, filter |-> r.filter,
                        ins |-> stillStored(ins1, r.store),
                        log |-> Append(st.log,
                                       [tx |-> h,
                                        fresh |-> ~mempoolHas(st.store, h) /\ h \in valid,
                                        err |-> r.err,
                                        evicted |-> storedHashes(r.full) \ storedHashes(r.store)])],
                       Tail(gossip), valid, salt, via)

\* the error the handler returns: the first one an insertion handed on
RECURSIVE firstErr(_)
firstErr(log) ==
    IF log = << >> THEN NilErr
    ELSE IF handlerErr(log[1].err) # NilErr THEN handlerErr(log[1].err)
    ELSE firstErr(Tail(log))

\* the state a handler starts the insertions in
insertStart == [store |-> mpStore, filter |-> mpFilter, ins |-> inserted, log |-> << >>]

\* Push-in: an inbound push message is decoded and its transactions are
\* inserted as non-local; nothing is sent back
PushIn(gossip, valid, salt) ==
    /\ gossip # << >>
    /\ LET st == insertAll(insertStart, gossip, valid, salt, "push")
       IN  /\ mpStore' = st.store
           /\ mpFilter' = st.filter
           /\ inserted' = st.ins
           /\ hret' = [handler |-> "AppGossip", err |-> firstErr(st.log),
                       responses |-> << >>, log |-> st.log,
                       hasAfter |-> storedHashes(st.store)]
    /\ mpRet' = NoMpRet
    /\ UNCHANGED <<kind, toGossip, lastPush, pull>>
    /\ UNCHANGED <<basevars, tvars>>

\* Idle -> Pulling: the filter over the current contents is built under a
\* fresh salt and sent to the peer in a pull request
PullStart(p, salt) ==
    /\ pull[p].pc = "idle"
    /\ pull' = [pull EXCEPT ![p] = [pc |-> "pulling", sent |-> 1, outcome |-> "none"]]
    /\ hret' = [handler |-> "PullRequestOut", peer |-> p,
                filter |-> BuildFilter(mpStore, salt)]
    /\ mpRet' = NoMpRet
    /\ UNCHANGED <<mpStore, mpFilter>>
    /\ UNCHANGED <<kind, toGossip, lastPush, inserted>>
    /\ UNCHANGED <<basevars, tvars>>

\* Pulling -> Idle: the peer's response arrives in time; its transactions
\* are inserted as non-local
PullResponse(p, gossip, valid, salt) ==
    /\ pull[p].pc = "pulling"
    /\ LET st == insertAll(insertStart, gossip, valid, salt, "pull")
       IN  /\ mpStore' = st.store
           /\ mpFilter' = st.filter
           /\ inserted' = st.ins
           /\ hret' = [handler |-> "AppResponse", err |-> firstErr(st.log),
                       responses |-> << >>, log |-> st.log,
                       hasAfter |-> storedHashes(st.store)]
    /\ pull' = [pull EXCEPT ![p] = [@ EXCEPT !.pc = "idle", !.outcome = "response"]]
    /\ mpRet' = NoMpRet
    /\ UNCHANGED <<kind, toGossip, lastPush>>
    /\ UNCHANGED <<basevars, tvars>>

\* variant: the timed-out cycle sends the request again and keeps waiting
onTimeout_retry(c) == [c EXCEPT !.sent = 2]

\* the request timeout fires: the cycle is abandoned, nothing is sent
onTimeout(c) == [c EXCEPT !.pc = "idle", !.outcome = "timeout"]

\* Pulling -> Idle by the request timeout
PullTimeout(p) ==
    /\ pull[p].pc = "pulling"
    /\ pull' = [pull EXCEPT ![p] = onTimeout(@)]
    /\ hret' = NoHret
    /\ mpRet' = NoMpRet
    /\ UNCHANGED <<mpStore, mpFilter>>
    /\ UNCHANGED <<kind, toGossip, lastPush, inserted>>
    /\ UNCHANGED <<basevars, tvars>>

\* the first n elements of q
firstN(q, n) == SubSeq(q, 1, IF Len(q) < n THEN Len(q) ELSE n)

\* the hashes of store, the most recently inserted first
recentFirst(store) == [i \in DOMAIN store |-> store[Len(store) + 1 - i].tx]

\* variant: the responder sends what it holds, whatever the filter says
respondTo_all(store, f) == firstN(recentFirst(store), MaxResp)

\* Responding: the held transactions that test absent from the requester's
\* filter under the requester's salt, most recent first, up to the limit
respondTo(store, f) ==
    LET absent == pullResponse(storedHashes(store),
                               {h \in Hashes : filterHas(f, h)}).gossip
    IN  firstN(SelectSeq(recentFirst(store), LAMBDA h : h \in absent), MaxResp)

\* an admitted pull request with filter f is answered
RespondTo(f) ==
    /\ hret' = [handler |-> "AppRequest", filter |-> f,
                responses |-> <<respondTo(mpStore, f)>>]
    /\ mpRet' = NoMpRet
    /\ UNCHANGED <<mpStore, mpFilter>>
    /\ UNCHANGED <<kind, toGossip, lastPush, inserted, pull>>
    /\ UNCHANGED <<basevars, tvars>>

\* the push queue takes a transaction once
pushAdd(q, hash) == IF hash \in hashesOf(q) THEN q ELSE Append(q, hash)

\* variant: the message leaves the transaction queued last out
pushBatch_dropLast(q) == SubSeq(q, 1, Len(q) - 1)

\* the transactions the next push message carries: all that wait
pushBatch(q) == q

\* a transaction is issued locally: AddLocal, and once accepted it is queued
\* for the push
IssueTx(hash, ok, salt) ==
    /\ LocalInsert(hash, ok, salt)
    /\ toGossip' = IF addTx(mpStore, mpFilter, hash, TRUE, ok, salt).err = NilErr
                   THEN pushAdd(toGossip, hash) ELSE toGossip
    /\ UNCHANGED <<kind, lastPush, pull>>
    /\ UNCHANGED <<basevars, tvars>>

\* Push-out: the waiting transactions are serialized and broadcast in one
\* push message under the protocol identifier of the coordinator's kind
PushOut ==
    /\ toGossip # << >>
    /\ lastPush' = [proto |-> handlerID(kind), gossip |-> pushBatch(toGossip)]
    /\ toGossip' = << >>
    /\ hret' = NoHret
    /\ mpRet' = NoMpRet
    /\ UNCHANGED <<mpStore, mpFilter>>
    /\ UNCHANGED <<kind, inserted, pull>>
    /\ UNCHANGED <<basevars, tvars>>

\* the peer whose pull cycles run beside the other paths
firstPeer == CHOOSE p \in Peers : \A q \in Peers : p <= q

\* inbound messages, the pull cycles with one peer and direct submissions
InboundNext ==
    \/ \E gossip \in Gossips, salt \in Salts : \E valid \in SUBSET hashesOf(gossip) :
           PushIn(gossip, valid, salt)
    \/ \E salt \in Salts : PullStart(firstPeer, salt)
    \/ \E gossip \in Gossips, salt \in Salts :
           \E valid \in SUBSET hashesOf(gossip) : PullResponse(firstPeer, gossip, valid, salt)
    \/ PullTimeout(firstPeer)
    \/ \E hash \in Hashes, ok \in BOOLEAN, salt \in Salts : AddLocalTx(hash, ok, salt)

\* inbound push messages beside direct local submissions
PushInNext ==
    \/ \E gossip \in PushGossips, salt \in Salts : \E valid \in SUBSET hashesOf(gossip) :
           PushIn(gossip, valid, salt)
    \/ \E hash \in Hashes, ok \in BOOLEAN, salt \in Salts : AddLocalTx(hash, ok, salt)
    \/ \E hash \in Hashes : RemoveTx(hash)

\* the pull cycles alone
PullNext ==
    \/ \E p \in Peers, salt \in Salts : PullStart(p, salt)
    \/ \E p \in Peers, gossip \in Gossips, salt \in Salts :
           \E valid \in SUBSET hashesOf(gossip) : PullResponse(p, gossip, valid, salt)
    \/ \E p \in Peers : PullTimeout(p)

\* the responder over a Mempool that changes
ResponderNext ==
    \/ \E hash \in Hashes, ok \in BOOLEAN, salt \in Salts : AddRemoteTx(hash, ok, salt)
    \/ \E hash \in Hashes, ok \in BOOLEAN, salt \in Salts : AddLocalTx(hash, ok, salt)
    \/ \E salt \in Salts, bits \in FilterBitSets : RespondTo([salt |-> salt, bits |-> bits])

\* local issue and push, with pull cycles beside them
PushNext ==
    \/ \E hash \in Hashes, ok \in BOOLEAN, salt \in Salts : IssueTx(hash, ok, salt)
    \/ PushOut
    \/ \E salt \in Salts : PullStart(firstPeer, salt)
    \/ PullTimeout(firstPeer)

\* ------------------------------------------------------------- loop, Close

\* resetBusy = make(chan struct{}, 1): the capacity of the busy-marker channel
resetBusyCap == 1

\* variant: a reset is wanted on every pass of the loop
needReset_always(old, new) == TRUE

\* if newHead != oldHead: header pointers are compared
needReset(old, new) == new # old

\* variants: the busy marker is not consulted; the channel holds two markers
busyFree_always(busy) == TRUE

busyFree_two(busy) == busy < resetBusyCap + 1

\* case resetBusy <- struct{}{}: the send succeeds while the buffer has room,
\* otherwise the select takes its default branch
busyFree(busy) == busy < resetBusyCap

\* event.Block.Header(): Header() hands out a copy of the block's header, a
\* pointer no earlier head has; the n-th head received is named n
headOf(n) == n

\* variant: a head that is still waiting for its reset is not overwritten
storeHead_keepPending(cur, old, n) == IF cur # old THEN cur ELSE headOf(n)

\* newHead = event.Block.Header(): the n-th head received overwrites newHead
\* (cur), whatever oldHead (old) is
storeHead(cur, old, n) == headOf(n)

\* variant: the received head is dropped
oldHeadAfter_keep(old, head) == old

\* case head := <-resetDone: oldHead = head
oldHeadAfter(old, head) == head

\* variant: the busy marker is left in the channel
busyAfterDone_keep(busy) == busy

\* <-resetBusy
busyAfterDone(busy) == busy - 1

\* variant: the goroutine reports completion without sending the reorg event
resetNext_noFeed(idx) ==
    IF idx + 1 < NumSubPools
    THEN [stage |-> "call", idx |-> idx + 1]
    ELSE [stage |-> "send", idx |-> idx + 1]

\* for _, subpool := range p.subpools: the index visited after index idx, and
\* what the goroutine does once Reset of sub-pool idx has returned
resetNext(idx) ==
    IF idx + 1 < NumSubPools
    THEN [stage |-> "call", idx |-> idx + 1]
    ELSE [stage |-> "feed", idx |-> idx + 1]

\* go func(oldHead, newHead *types.Header): the goroutine as it starts
\*   stage "call": about to call p.subpools[idx].Reset; "in": inside that Reset;
\*   "feed": about to p.reorgFeed.Send; "send": blocked on resetDone <- newHead;
\*   "done": the loop has received from resetDone
\*   startN, doneN: heads notified so far when it started, when it was received
newReset(old, new, n) ==
    IF NumSubPools > 0
    THEN [old |-> old, new |-> new, stage |-> "call", idx |-> 0, startN |-> n, doneN |-> 0]
    ELSE [old |-> old, new |-> new, stage |-> "feed", idx |-> 0, startN |-> n, doneN |-> 0]

\* variant: the loop never looks at errc
loopCond_forever(e) == TRUE

\* for errc == nil
loopCond(e) == ~e

\* variant: only the first failure is kept
closeErrsAfter_first(errs, idx, fails) ==
    IF fails /\ errs = << >> THEN Append(errs, idx) ELSE errs

\* if err := subpool.Close(); err != nil { errs = append(errs, err) }
\*   the error of sub-pool idx is named by idx
closeErrsAfter(errs, idx, fails) ==
    IF fails THEN Append(errs, idx) ELSE errs

\* variant: the range stops at the first sub-pool whose Close failed
closeDone_failFast(idx, errs) == idx = NumSubPools \/ errs # << >>

\* for _, subpool := range p.subpools: the range is over
closeDone(idx, errs) == idx = NumSubPools

\* if len(errs) > 0 { return fmt.Errorf("subpool close errors: %v", errs) }
\* return nil
closeResult(errs) ==
    IF Len(errs) > 0
    THEN [err |-> "subpool close errors", errs |-> errs]
    ELSE [err |-> ErrNil, errs |-> << >>]

Event(ev, t, k, old, new) == [ev |-> ev, task |-> t, sub |-> k, old |-> old, new |-> new]

\* for errc == nil { if newHead != oldHead { select { case resetBusy <- ...: go func ...
LoopStartReset ==
    /\ loopPc = "check" /\ loopCond(errc)
    /\ needReset(oldHead, newHead)
    /\ busyFree(resetBusy)
    /\ resetBusy' = resetBusy + 1
    /\ resets' = Append(resets, newReset(oldHead, newHead, notified))
    /\ trace' = Append(trace, Event("start", Len(resets) + 1, -1, oldHead, newHead))
    /\ loopPc' = "select"
    /\ UNCHANGED <<oldHead, newHead, errc, notified, newHeadSub, subsClosed, closePc,
                   closeIdx, closeErrs, closeRet>>
    /\ UNCHANGED <<rvars, xvars>>

\* ... default: reset already running, wait until it finishes
LoopResetRunning ==
    /\ loopPc = "check" /\ loopCond(errc)
    /\ needReset(oldHead, newHead)
    /\ ~busyFree(resetBusy)
    /\ loopPc' = "select"
    /\ UNCHANGED <<oldHead, newHead, resetBusy, errc, notified, resets, trace, newHeadSub,
                   subsClosed, closePc, closeIdx, closeErrs, closeRet>>
    /\ UNCHANGED <<rvars, xvars>>

\* newHead == oldHead: nothing to reset, go on to the select
LoopNoReset ==
    /\ loopPc = "check" /\ loopCond(errc)
    /\ ~needReset(oldHead, newHead)
    /\ loopPc' = "select"
    /\ UNCHANGED <<oldHead, newHead, resetBusy, errc, notified, resets, trace, newHeadSub,
                   subsClosed, closePc, closeIdx, closeErrs, closeRet>>
    /\ UNCHANGED <<rvars, xvars>>

\* case event := <-newHeadCh: newHead = event.Block.Header()
LoopNewHead ==
    /\ loopPc = "select"
    /\ newHeadSub
    /\ notified < MaxHeads
    /\ notified' = notified + 1
    /\ newHead' = storeHead(newHead, oldHead, notified + 1)
    /\ loopPc' = "check"
    /\ UNCHANGED <<oldHead, resetBusy, errc, resets, trace, newHeadSub, subsClosed,
                   closePc, closeIdx, closeErrs, closeRet>>
    /\ UNCHANGED <<rvars, xvars>>

\* case head := <-resetDone: oldHead = head   (the goroutine's send completes)
LoopResetDone(t) ==
    /\ loopPc = "select"
    /\ resets[t].stage = "send"
    /\ oldHead' = oldHeadAfter(oldHead, resets[t].new)
    /\ resets' = [resets EXCEPT ![t].stage = "done", ![t].doneN = notified]
    /\ trace' = Append(trace, Event("done", t, -1, resets[t].old, resets[t].new))
    /\ loopPc' = "drain"
    /\ UNCHANGED <<newHead, resetBusy, errc, notified, newHeadSub, subsClosed, closePc,
                   closeIdx, closeErrs, closeRet>>
    /\ UNCHANGED <<rvars, xvars>>

\* <-resetBusy: the busy marker is taken out again
LoopDrainBusy ==
    /\ loopPc = "drain"
    /\ resetBusy > 0
    /\ resetBusy' = busyAfterDone(resetBusy)
    /\ loopPc' = "check"
    /\ UNCHANGED <<oldHead, newHead, errc, notified, resets, trace, newHeadSub, subsClosed,
                   closePc, closeIdx, closeErrs, closeRet>>
    /\ UNCHANGED <<rvars, xvars>>

\* variant: Close goes on to the sub-pools as soon as its quit request is taken
closeAfterQuit_noWait == "subpools"

\* if err := <-errc: once p.quit <- errc is through, Close waits on errc
closeAfterQuit == "wait"

\* case errc = <-p.quit: meets Close's p.quit <- errc
LoopQuit ==
    /\ loopPc = "select"
    /\ closePc = "quit"
    /\ errc' = TRUE
    /\ closePc' = closeAfterQuit
    /\ loopPc' = "check"
    /\ UNCHANGED <<oldHead, newHead, resetBusy, notified, resets, trace, newHeadSub,
                   subsClosed, closeIdx, closeErrs, closeRet>>
    /\ UNCHANGED <<rvars, xvars>>

\* for errc == nil fails: the loop is left
LoopLeave ==
    /\ loopPc = "check" /\ ~loopCond(errc)
    /\ loopPc' = "ack"
    /\ UNCHANGED <<oldHead, newHead, resetBusy, errc, notified, resets, trace, newHeadSub,
                   subsClosed, closePc, closeIdx, closeErrs, closeRet>>
    /\ UNCHANGED <<rvars, xvars>>

\* errc <- nil meets Close's <-errc (a nil error: nothing is appended to errs);
\* loop returns, and Close goes on to the sub-pools
LoopAck ==
    /\ loopPc = "ack"
    /\ closePc = "wait"
    /\ loopPc' = "exited"
    /\ closePc' = "subpools"
    /\ trace' = Append(trace, Event("ack", 0, -1, oldHead, newHead))
    /\ UNCHANGED <<oldHead, newHead, resetBusy, errc, notified, resets, newHeadSub,
                   subsClosed, closeIdx, closeErrs, closeRet>>
    /\ UNCHANGED <<rvars, xvars>>

\* the goroutine New started, after pool.loop has returned:
\* newHeadSub.Unsubscribe(), while Close runs on
LoopUnsubscribe ==
    /\ loopPc = "exited"
    /\ newHeadSub
    /\ newHeadSub' = FALSE
    /\ UNCHANGED <<loopPc, oldHead, newHead, resetBusy, errc, notified, resets, trace,
                   subsClosed, closePc, closeIdx, closeErrs, closeRet>>
    /\ UNCHANGED <<rvars, xvars>>

\* reset goroutine: subpool.Reset(oldHead, newHead) is called on p.subpools[idx]
ResetCall(t) ==
    /\ resets[t].stage = "call"
    /\ resets' = [resets EXCEPT ![t].stage = "in"]
    /\ trace' = Append(trace, Event("reset", t, resets[t].idx, resets[t].old, resets[t].new))
    /\ UNCHANGED <<loopPc, oldHead, newHead, resetBusy, errc, notified, newHeadSub,
                   subsClosed, closePc, closeIdx, closeErrs, closeRet>>
    /\ UNCHANGED <<rvars, xvars>>

\* reset goroutine: that Reset returns, the range goes on
ResetReturn(t) ==
    /\ resets[t].stage = "in"
    /\ LET nx == resetNext(resets[t].idx)
       IN resets' = [resets EXCEPT ![t].stage = nx.stage, ![t].idx = nx.idx]
    /\ trace' = Append(trace, Event("return", t, resets[t].idx, resets[t].old, resets[t].new))
    /\ UNCHANGED <<loopPc, oldHead, newHead, resetBusy, errc, notified, newHeadSub,
                   subsClosed, closePc, closeIdx, closeErrs, closeRet>>
    /\ UNCHANGED <<rvars, xvars>>

\* reset goroutine: p.reorgFeed.Send(core.NewTxPoolReorgEvent{Head: newHead})
ResetReorgSend(t) ==
    /\ resets[t].stage = "feed"
    /\ resets' = [resets EXCEPT ![t].stage = "send"]
    /\ trace' = Append(trace, Event("reorg", t, -1, resets[t].new, resets[t].new))
    /\ UNCHANGED <<loopPc, oldHead, newHead, resetBusy, errc, notified, newHeadSub,
                   subsClosed, closePc, closeIdx, closeErrs, closeRet>>
    /\ UNCHANGED <<rvars, xvars>>

\* Close: p.subs.Close(), errc := make(chan error), then blocked on p.quit <- errc
CloseCall ==
    /\ closePc = "none"
    /\ subsClosed' = TRUE
    /\ closePc' = "quit"
    /\ UNCHANGED <<loopPc, oldHead, newHead, resetBusy, errc, notified, resets, trace,
                   newHeadSub, closeIdx, closeErrs, closeRet>>
    /\ UNCHANGED <<rvars, xvars>>

\* Close: subpool.Close() on the next sub-pool; fails says whether it returned an
\* error, which is then appended to errs
CloseSubpool(fails) ==
    /\ closePc = "subpools"
    /\ ~closeDone(closeIdx, closeErrs)
    /\ closeErrs' = closeErrsAfter(closeErrs, closeIdx, fails)
    /\ trace' = Append(trace, Event(IF fails THEN "closeErr" ELSE "close", 0, closeIdx,
                                    oldHead, newHead))
    /\ closeIdx' = closeIdx + 1
    /\ UNCHANGED <<loopPc, oldHead, newHead, resetBusy, errc, notified, resets,
                   newHeadSub, subsClosed, closePc, closeRet>>
    /\ UNCHANGED <<rvars, xvars>>

\* Close: if len(errs) > 0 { return fmt.Errorf(...) }; return nil
CloseReturn ==
    /\ closePc = "subpools"
    /\ closeDone(closeIdx, closeErrs)
    /\ closeRet' = closeResult(closeErrs)
    /\ closePc' = "returned"
    /\ UNCHANGED <<loopPc, oldHead, newHead, resetBusy, errc, notified, resets, trace,
                   newHeadSub, subsClosed, closeIdx, closeErrs>>
    /\ UNCHANGED <<rvars, xvars>>

\* New: head := chain.CurrentBlock(), named 0; the loop starts with
\* oldHead = head, newHead = oldHead, an empty resetBusy, and errc nil
LoopInit ==
    /\ loopPc = "check"
    /\ oldHead = 0
    /\ newHead = 0
    /\ resetBusy = 0
    /\ errc = FALSE
    /\ notified = 0
    /\ resets = << >>
    /\ trace = << >>
    /\ newHeadSub = TRUE
    /\ subsClosed = FALSE
    /\ closePc = "none"
    /\ closeIdx = 0
    /\ closeErrs = << >>
    /\ closeRet = [err |-> "", errs |-> << >>]

Init ==
    /\ ReserveInit /\ LoopInit /\ CallInit /\ CtorInit /\ GossipInit /\ TipInit
    /\ MempoolInit /\ CoordInit

\* the state New is called in: no loop goroutine, no head subscription yet
NewSpecInit ==
    /\ ReserveInit /\ ~metricsEnabled
    /\ CallInit
    /\ CtorStart
    /\ GossipInit
    /\ TipInit
    /\ MempoolInit /\ CoordInit
    /\ loopPc = "unstarted"
    /\ newHeadSub = FALSE
    /\ oldHead = 0 /\ newHead = 0 /\ resetBusy = 0 /\ errc = FALSE /\ notified = 0
    /\ resets = << >> /\ trace = << >> /\ subsClosed = FALSE
    /\ closePc = "none" /\ closeIdx = 0 /\ closeErrs = << >>
    /\ closeRet = [err |-> "", errs |-> << >>]

\* the loop and Close never read metrics.Enabled: one value is enough for them
LoopSpecInit == Init /\ ~metricsEnabled

LoopStep ==
    \/ LoopStartReset
    \/ LoopResetRunning
    \/ LoopNoReset
    \/ LoopNewHead
    \/ \E t \in 1 .. Len(resets) : LoopResetDone(t)
    \/ LoopDrainBusy
    \/ LoopQuit
    \/ LoopLeave
    \/ LoopAck
    \/ LoopUnsubscribe

ResetStep ==
    \/ \E t \in 1 .. Len(resets) : ResetCall(t)
    \/ \E t \in 1 .. Len(resets) : ResetReturn(t)
    \/ \E t \in 1 .. Len(resets) : ResetReorgSend(t)

CloseStep ==
    \/ CloseCall
    \/ \E fails \in BOOLEAN : CloseSubpool(fails)
    \/ CloseReturn

Next == LoopStep \/ ResetStep \/ CloseStep

\* the coordinator's reset loop, its reset goroutines and Close
Spec == LoopSpecInit /\ [][Next]_vars

\* The same under the scheduling the Go runtime gives: a goroutine that can
\* take a step takes it (the loop's own steps, the reset goroutine's steps,
\* assuming that every sub-pool Reset and the reorg feed's Send return), and a
\* select case that is ready again and again is taken (resetDone). Nothing is
\* assumed of the chain (head events) or of the caller of Close.
Fairness ==
    /\ WF_vars(LoopStartReset \/ LoopResetRunning \/ LoopNoReset \/ LoopDrainBusy \/ LoopLeave)
    /\ WF_vars(ResetStep)
    /\ SF_vars(\E t \in 1 .. Len(resets) : LoopResetDone(t))
    /\ WF_vars(LoopUnsubscribe)

FairSpec == LoopSpecInit /\ [][Next]_vars /\ Fairness

\* What Close needs of the scheduler to return: the loop goroutine runs, its
\* select takes the quit case when it stays ready, and every sub-pool's Close
\* returns. Nothing is assumed of the reset goroutines: they may never finish.
CloseFairness ==
    /\ WF_vars(LoopStartReset \/ LoopResetRunning \/ LoopNoReset \/ LoopDrainBusy \/ LoopLeave)
    /\ SF_vars(LoopQuit)
    /\ WF_vars(LoopAck)
    /\ WF_vars((\E fails \in BOOLEAN : CloseSubpool(fails)) \/ CloseReturn)

FairCloseSpec == LoopSpecInit /\ [][Next]_vars /\ CloseFairness

\* Add and Nonce under calls with any batch and any sub-pool reports; these
\* calls read neither the reservation table nor the loop's state
CallSpec == LoopSpecInit /\ [][CallNext]_vars

\* New from its call to its return, while the chain moves
NewSpec == NewSpecInit /\ [][NewNext]_vars

\* New, and then the loop it starts and the loop's reset goroutines, while the
\* pool is not closed
StartNext ==
    \/ ChainAdvanceDuringNew
    \/ NewCurrentBlock
    \/ \E fails \in BOOLEAN : NewInitSubpool(fails)
    \/ \E fails \in BOOLEAN : NewUnwindClose(fails)
    \/ NewFail
    \/ NewSubscribe
    \/ NewStartLoop
    \/ LoopStartReset
    \/ LoopResetRunning
    \/ LoopNoReset
    \/ LoopNewHead
    \/ \E t \in 1 .. Len(resets) : LoopResetDone(t)
    \/ LoopDrainBusy
    \/ ResetStep

StartSpecInit == NewSpecInit /\ ctorN = NumSubPools

StartSpec == StartSpecInit /\ [][StartNext]_vars

\* the gate and the responder under pull requests of any node, with the
\* validator state set up with any validator set at height 0
GossipSpecInit ==
    /\ ReserveInit /\ ~metricsEnabled
    /\ LoopInit /\ CallInit /\ CtorInit /\ TipInit
    /\ MempoolInit /\ CoordInit
    /\ valHeight = 0
    /\ valSet \in ValidatorMaps
    /\ mempool = {}
    /\ req = NoReq

GossipSpec == GossipSpecInit /\ [][GossipNext]_vars

\* GasTip and SetGasTip on a pool made by New with any gas tip
TipSpecInit ==
    /\ ReserveInit /\ ~metricsEnabled
    /\ LoopInit /\ CallInit /\ CtorInit /\ GossipInit
    /\ MempoolInit /\ CoordInit
    /\ \E tip \in Tips : TipInitWith(tip)

TipSpec == TipSpecInit /\ [][TipNext]_vars

\* the Mempool under insertions, removals and filter rebuilds, its first
\* filter built under any salt
MempoolSpecInit ==
    /\ ReserveInit /\ ~metricsEnabled
    /\ LoopInit /\ CallInit /\ CtorInit /\ GossipInit /\ TipInit
    /\ CoordInit
    /\ \E salt \in Salts : MempoolInitWith(salt)

MempoolSpec == MempoolSpecInit /\ [][MempoolNext]_vars

\* the coordinator of either kind over an empty Mempool
CoordSpecInit ==
    /\ ReserveInit /\ ~metricsEnabled
    /\ LoopInit /\ CallInit /\ CtorInit /\ GossipInit /\ TipInit
    /\ MempoolInit
    /\ \E k \in GossipKinds : CoordInitWith(k)

\* inbound gossip: push messages, pull cycles, direct local submissions
InboundSpec == CoordSpecInit /\ [][InboundNext]_vars

\* the request timer of every pull cycle under way fires unless the cycle
\* has ended
PullFairness == \A p \in Peers : WF_vars(PullTimeout(p))
FairPullSpec == CoordSpecInit /\ [][PullNext]_vars /\ PullFairness

\* the push handler
PushInSpec == CoordSpecInit /\ [][PushInNext]_vars

\* the pull responder
ResponderSpec == MempoolSpecInit /\ [][ResponderNext]_vars

\* the push gossiper broadcasts what waits; nothing is assumed of pull cycles
PushFairness == WF_vars(PushOut)
FairPushSpec == CoordSpecInit /\ [][PushNext]_vars /\ PushFairness

\* the reservation table under acquires the sub-pools make concurrently
RaceSpec == LoopSpecInit /\ [][RaceNext]_vars

\* the reservation table under calls of the sub-pools
ReserveSpec == Init /\ [][ReserveNext]_vars

\* ------------------------------------------------- reservation table claims

\* a call of sub-pool s that has run its branches and not yet returned
Returning(s) == rpc[s] = "ret"
\* the table entry of the call's account when the call took the lock
OwnerBefore(s) == lookup(rbefore[s], rargs[s].addr)
\* the table entry of the call's account now
OwnerNow(s) == lookup(reservations, rargs[s].addr)

\* C1 (exclusivity): in every reachable state no account is held, by a
\* successful and unreleased acquire, by two distinct sub-pools, and the table
\* names the holder of every held account as its one owner.
C1_Exclusivity ==
    /\ \A i, j \in subpools : i # j => held[i] \cap held[j] = {}
    /\ \A i \in subpools : \A a \in held[i] :
          lookup(reservations, a) = [exists |-> TRUE, owner |-> i]

\* a sub-pool has just asked for an account another sub-pool holds
C1_Witness ==
    \E i, j \in subpools :
        /\ i # j
        /\ Returning(j) /\ rargs[j].reserve
        /\ rargs[j].addr \in held[i]
        /\ held[j] # {}

\* C2: an acquire by sub-pool j of an account owned by another sub-pool i
\* returns "address already reserved" and leaves i the owner (the table is as
\* it was).
C2_AcquireOfOthersFails ==
    \A j \in subpools :
        (/\ Returning(j) /\ rargs[j].reserve
         /\ \E i \in subpools \ {j} : rargs[j].addr \in held[i] \/ OwnerBefore(j).owner = i)
        => /\ rret[j].err = ErrAlreadyReserved
           /\ OwnerNow(j) = OwnerBefore(j)
           /\ OwnerNow(j).exists /\ OwnerNow(j).owner # j
           /\ rargs[j].addr \in held[OwnerNow(j).owner]
           /\ reservations = rbefore[j]

C2_Witness ==
    \E j \in subpools :
        /\ Returning(j) /\ rargs[j].reserve
        /\ OwnerBefore(j).exists /\ OwnerBefore(j).owner # j
        /\ rret[j].err = ErrAlreadyReserved

\* C3: a release returns nil exactly when the caller owned the account; it then
\* removes the entry (and nothing else), and an acquire of an account that was
\* released and has no entry succeeds for whichever sub-pool asks, which becomes
\* the owner.
C3_ReleaseIffOwner ==
    /\ \A s \in subpools :
          (Returning(s) /\ ~rargs[s].reserve)
          => /\ (rret[s].err = ErrNil) <=> (OwnerBefore(s) = [exists |-> TRUE, owner |-> s])
             /\ (rret[s].err = ErrNil)
                   => /\ ~OwnerNow(s).exists
                      /\ reservations = mapDelete(rbefore[s], rargs[s].addr)
    /\ \A s \in subpools :
          (/\ Returning(s) /\ rargs[s].reserve
           /\ lastReleaser[rargs[s].addr] # -1
           /\ ~OwnerBefore(s).exists)
          => /\ rret[s].err = ErrNil
             /\ OwnerNow(s) = [exists |-> TRUE, owner |-> s]

\* an account released by one sub-pool has been acquired by another one, while
\* a release is also seen to succeed
C3_Witness ==
    \E s \in subpools :
        /\ Returning(s) /\ rargs[s].reserve /\ rret[s].err = ErrNil
        /\ ~OwnerBefore(s).exists
        /\ lastReleaser[rargs[s].addr] \in subpools \ {s}

\* C4 as stated: a release by a sub-pool that is not the owner fails with
\* "address not owned", whether another sub-pool or no sub-pool owns the account.
C4_Original ==
    \A s \in subpools :
        (/\ Returning(s) /\ ~rargs[s].reserve
         /\ OwnerBefore(s) # [exists |-> TRUE, owner |-> s])
        => rret[s].err = ErrNotOwned

\* C4 amended: a release by a sub-pool that is not the owner fails and changes
\* nothing; the error is "address not owned" when another sub-pool owns the
\* account and "address not reserved" when no sub-pool does.
C4_ReleaseByNonOwnerFails ==
    \A s \in subpools :
        (/\ Returning(s) /\ ~rargs[s].reserve
         /\ OwnerBefore(s) # [exists |-> TRUE, owner |-> s])
        => /\ rret[s].err = (IF OwnerBefore(s).exists THEN ErrNotOwned ELSE ErrNotReserved)
           /\ reservations = rbefore[s]

\* a release of an account that nobody owns has just failed
C4_Witness ==
    \E s \in subpools :
        /\ Returning(s) /\ ~rargs[s].reserve
        /\ ~OwnerBefore(s).exists
        /\ rret[s].err # ErrNil

\* ------------------------------------------------------ reset loop claims

\* the reset goroutines whose completion the loop has not received yet
InFlight == {t \in 1 .. Len(resets) : resets[t].stage # "done"}

\* what reset goroutine t did, in order
TaskTrace(t) ==
    SelectSeq(trace, LAMBDA e : e.task = t /\ e.ev \in {"reset", "return", "reorg", "done"})

\* the Reset calls and returns sub-pool k saw, in order
SubpoolTrace(k) ==
    SelectSeq(trace, LAMBDA e : e.sub = k /\ e.ev \in {"reset", "return"})

IsPrefix(a, b) == Len(a) <= Len(b) /\ \A i \in 1 .. Len(a) : a[i] = b[i]

\* C5: at most one reset is in flight: the reset goroutines started whose
\* completion the loop has not yet received number 0 or 1.
C5_OneResetInFlight == Cardinality(InFlight) <= 1

\* a second reset is in flight and a newer head has arrived meanwhile
C5_Witness ==
    /\ Len(resets) >= 2
    /\ Cardinality(InFlight) = 1
    /\ newHead # resets[Len(resets)].new

\* C6 (coalescing): when heads were notified while reset t was in flight, at
\* most one reset is ever started for all of them; the reset started after t
\* has the last of them as its newHead, and it is started as soon as the loop
\* has taken t's completion (the loop cannot quit in between); if no head is
\* notified afterwards at most one reset follows t. Once the loop is idle
\* again the last reset performed has the last head notified as its newHead.
C6_Coalescing ==
    /\ \A t \in 1 .. Len(resets) :
          (resets[t].stage = "done" /\ resets[t].doneN > resets[t].startN)
          => /\ Cardinality({u \in 1 .. Len(resets) :
                               \E n \in (resets[t].startN + 1) .. resets[t].doneN :
                                   resets[u].new = headOf(n)}) <= 1
             /\ t < Len(resets) => resets[t + 1].new = headOf(resets[t].doneN)
             /\ t = Len(resets) => loopPc \in {"drain", "check"} /\ ~errc
             /\ notified = resets[t].doneN => Len(resets) <= t + 1
    /\ (loopPc = "select" /\ resetBusy = 0 /\ notified > 0)
          => /\ InFlight = {}
             /\ resets # << >>
             /\ resets[Len(resets)].new = headOf(notified)

\* two heads arrived during the first reset, one further reset covered both,
\* and the loop is idle again
C6_Witness ==
    /\ Len(resets) = 2
    /\ resets[1].doneN >= resets[1].startN + 2
    /\ notified = resets[1].doneN
    /\ resets[2].stage = "done"
    /\ loopPc = "select" /\ resetBusy = 0

\* C7: a head advance is never lost: from every state in which the loop has
\* received a head, unless Close is called, the loop's oldHead eventually equals
\* the latest head notified; and oldHead only ever moves to the newHead of a
\* reset that has completed.
C7_HeadNeverLost ==
    /\ (notified > 0) ~> (closePc # "none" \/ oldHead = headOf(notified))
    /\ [](oldHead # 0 =>
             \E t \in 1 .. Len(resets) : resets[t].stage = "done" /\ resets[t].new = oldHead)

\* every head was notified, Close was not called, and the last reset has
\* brought oldHead to the last head
C7_Witness ==
    /\ closePc = "none"
    /\ notified = MaxHeads
    /\ Len(resets) >= 2
    /\ oldHead = headOf(notified)

\* C8 (head pairs chain): the first reset's oldHead is the head captured at
\* construction (0) and every later reset's oldHead is the newHead of the
\* reset before it.
C8_HeadsChain ==
    \A t \in 1 .. Len(resets) :
        resets[t].old = (IF t = 1 THEN 0 ELSE resets[t - 1].new)

C8_Witness ==
    /\ Len(resets) >= 3
    /\ resets[3].old = resets[2].new
    /\ resets[2].old # 0

\* what a reset goroutine does from start to end: Reset on every sub-pool in
\* registration order, each returning before the next is called, all with the
\* goroutine's (oldHead, newHead); then one reorg event with Head = newHead;
\* then the completion received by the loop
ExpectedTaskTrace(t) ==
    [i \in 1 .. (2 * NumSubPools + 2) |->
        IF i <= 2 * NumSubPools
        THEN Event(IF i % 2 = 1 THEN "reset" ELSE "return", t, (i - 1) \div 2,
                   resets[t].old, resets[t].new)
        ELSE IF i = 2 * NumSubPools + 1
             THEN Event("reorg", t, -1, resets[t].new, resets[t].new)
             ELSE Event("done", t, -1, resets[t].old, resets[t].new)]

\* C9: within one reset the sub-pools are reset one at a time in registration
\* order with the same (oldHead, newHead); exactly one reorg event with
\* Head = newHead follows the last Reset's return and precedes the completion
\* the loop receives.
C9_ResetSequence ==
    \A t \in 1 .. Len(resets) :
        /\ IsPrefix(TaskTrace(t), ExpectedTaskTrace(t))
        /\ resets[t].stage = "done" => TaskTrace(t) = ExpectedTaskTrace(t)
        /\ resets[t].stage = "send" => Len(TaskTrace(t)) = 2 * NumSubPools + 1

\* a reset has completed, and the next one is under way
C9_Witness ==
    /\ Len(resets) >= 2
    /\ resets[1].stage = "done"
    /\ resets[2].stage = "send"

\* C10: for each sub-pool, a Reset is called only after the previous Reset of
\* that sub-pool has returned, and the newHead arguments of its successive
\* Reset calls are strictly increasing in the order the heads were notified.
C10_SubpoolResetsOrdered ==
    \A k \in subpools :
        LET tr == SubpoolTrace(k)
        IN /\ \A i \in 1 .. Len(tr) :
                 IF i % 2 = 1
                 THEN tr[i].ev = "reset"
                 ELSE tr[i].ev = "return" /\ tr[i].task = tr[i - 1].task
           /\ \A i, j \in 1 .. Len(tr) :
                 (i < j /\ tr[i].ev = "reset" /\ tr[j].ev = "reset")
                 => /\ tr[i].new < tr[j].new
                    /\ \E n \in 1 .. notified : tr[j].new = headOf(n)

\* the last sub-pool has been reset three times
C10_Witness ==
    \E k \in subpools :
        /\ k = NumSubPools - 1
        /\ Len(SubpoolTrace(k)) >= 6

\* ------------------------------------------- reservation table claims, II

\* the accounts the table gives to sub-pool s
OwnedBy(res, s) == {a \in DOMAIN res : res[a] = s}

\* C18: an acquire by the sub-pool that already owns the account returns nil
\* and changes nothing: the table is as it was, and with metrics enabled the
\* sub-pool's gauge still equals the number of its entries; and however often
\* the owner acquired the account again, one release by it removes the entry.
C18_ReacquireIsNoOp ==
    /\ \A s \in subpools :
          (Returning(s) /\ rargs[s].reserve /\ OwnerBefore(s) = [exists |-> TRUE, owner |-> s])
          => /\ rret[s].err = ErrNil
             /\ rret[s].log = LogReserveOwned
             /\ reservations = rbefore[s]
             /\ metricsEnabled => gauge[s] = Cardinality(OwnedBy(rbefore[s], s))
    /\ \A s \in subpools :
          (/\ Returning(s) /\ ~rargs[s].reserve
           /\ rargs[s].addr \in reacquired
           /\ OwnerBefore(s) = [exists |-> TRUE, owner |-> s])
          => /\ rret[s].err = ErrNil
             /\ ~OwnerNow(s).exists
             /\ metricsEnabled => gauge[s] = Cardinality(OwnedBy(rbefore[s], s)) - 1

\* the owner releases an account it had acquired twice, with metrics enabled
C18_Witness ==
    \E s \in subpools :
        /\ Returning(s) /\ ~rargs[s].reserve
        /\ rargs[s].addr \in reacquired
        /\ rret[s].err = ErrNil
        /\ metricsEnabled

\* ------------------------------------------------------------ Close claims

\* the sub-pool Close calls made so far, in order ("closeErr": it returned an error)
CloseTrace == SelectSeq(trace, LAMBDA e : e.ev \in {"close", "closeErr"})

\* the sub-pools whose Close returned an error, in the order they were closed
RECURSIVE FailedCloses(_)
FailedCloses(tr) ==
    IF tr = << >> THEN << >>
    ELSE IF tr[1].ev = "closeErr"
         THEN <<tr[1].sub>> \o FailedCloses(Tail(tr))
         ELSE FailedCloses(Tail(tr))

\* C15: when Close returns, Close was called on every sub-pool, once each and
\* in registration order, whether or not an earlier one failed; the value
\* returned is an error exactly when some sub-pool's Close failed, and it
\* reports all the failures, in order.
C15_CloseNoShortCircuit ==
    closePc = "returned"
    => /\ Len(CloseTrace) = NumSubPools
       /\ \A k \in subpools : CloseTrace[k + 1].sub = k
       /\ (closeRet.err # ErrNil) <=> (\E i \in 1 .. Len(CloseTrace) : CloseTrace[i].ev = "closeErr")
       /\ closeRet.errs = FailedCloses(CloseTrace)
       /\ closeRet.err \in {ErrNil, "subpool close errors"}

\* Close has returned after the first sub-pool's Close failed and the last
\* one's did too
C15_Witness ==
    /\ closePc = "returned"
    /\ CloseTrace[1].ev = "closeErr"
    /\ CloseTrace[NumSubPools].ev = "closeErr"
    /\ Len(closeRet.errs) >= 2

\* C16: once Close is called it returns, from every state of the loop, given
\* only that the loop goroutine is scheduled and that every sub-pool's Close
\* returns: the loop takes the quit request and acknowledges it whether or not
\* a reset is in flight, and no step of a reset goroutine is needed.
C16_CloseReturns == (closePc # "none") ~> (closePc = "returned")

\* Close has returned while a reset goroutine is still inside a sub-pool's Reset
C16_Witness ==
    /\ closePc = "returned"
    /\ \E t \in InFlight : resets[t].stage = "in"

\* ------------------------------------------------------- Add, Nonce claims

\* the sub-pool the batch's transaction tx is meant for: the lowest-index
\* sub-pool whose filter accepts it, -1 when none does
Selected(tx) ==
    IF tx.accept = {} THEN -1
    ELSE CHOOSE j \in tx.accept : \A k \in tx.accept : j <= k

\* the transactions of the call's batch meant for sub-pool j, in input order
Partition(j) == SelectSeq(call.txs, LAMBDA tx : Selected(tx) = j)

\* how many transactions of the batch up to position i are meant for sub-pool j
Rank(i, j) == Cardinality({h \in 1 .. i : Selected(call.txs[h]) = j})

\* C11: Add hands every transaction of the batch to exactly one sub-pool, the
\* lowest-index one whose filter accepts it, and to no other; a transaction no
\* filter accepts is handed to none; what each sub-pool receives is in input order.
C11_AddRouting ==
    call.op = "Add"
    => /\ \A j \in subpools : call.txsets[j] = Partition(j)
       /\ \A i \in 1 .. Len(call.txs) :
             LET holders == {j \in subpools :
                               \E n \in 1 .. Len(call.txsets[j]) :
                                  call.txsets[j][n] = call.txs[i]}
             IN  holders = (IF call.txs[i].accept = {} THEN {} ELSE {Selected(call.txs[i])})

\* an Add whose batch has a transaction two filters accept, one no filter
\* accepts, and two transactions for the same sub-pool
C11_Witness ==
    /\ call.op = "Add"
    /\ \E i \in 1 .. Len(call.txs) : Cardinality(call.txs[i].accept) >= 2
    /\ \E i \in 1 .. Len(call.txs) : call.txs[i].accept = {}
    /\ \E j \in subpools : Len(call.txsets[j]) >= 2

\* C12: Add returns one result per input transaction, in input order: for a
\* transaction meant for a sub-pool, the result at its position is the result
\* that sub-pool returned for this very transaction, which is its k-th result
\* when the transaction is the k-th of the sub-pool's partition.
C12_AddResultsInOrder ==
    call.op = "Add"
    => /\ Len(call.errs) = Len(call.txs)
       /\ \A i \in 1 .. Len(call.txs) :
             Selected(call.txs[i]) # -1
             => call.errs[i] = [pool |-> Selected(call.txs[i]),
                                nth |-> Rank(i, Selected(call.txs[i])),
                                tx |-> call.txs[i].id,
                                local |-> call.local, sync |-> call.sync]

\* an Add whose batch interleaves two sub-pools: a transaction of one between
\* two of the other
C12_Witness ==
    /\ call.op = "Add"
    /\ Len(call.txs) >= 3
    /\ Selected(call.txs[1]) = 1
    /\ Selected(call.txs[2]) = 0
    /\ Selected(call.txs[3]) = 1
    /\ call.errs[3].nth = 2

\* C13: a transaction no sub-pool claims gets the unsupported-kind error in its
\* own slot and only there; every other transaction of the batch, before or
\* after it, is still handed to its sub-pool and gets that sub-pool's result.
C13_RejectionDoesNotAbort ==
    call.op = "Add"
    => \A i \in 1 .. Len(call.txs) :
          /\ (call.errs[i] = ErrTxTypeNotSupported) <=> (Selected(call.txs[i]) = -1)
          /\ Selected(call.txs[i]) # -1
             => /\ \E n \in 1 .. Len(call.txsets[Selected(call.txs[i])]) :
                      call.txsets[Selected(call.txs[i])][n] = call.txs[i]
                /\ call.errs[i].pool = Selected(call.txs[i])
                /\ call.errs[i].tx = call.txs[i].id

\* an Add whose batch has an unclaimed transaction first and a claimed one
\* after it, and one with the unclaimed transaction in the middle
C13_Witness ==
    /\ call.op = "Add"
    /\ Len(call.txs) >= 3
    /\ call.txs[1].accept # {}
    /\ call.txs[2].accept = {}
    /\ call.txs[3].accept # {}
    /\ call.errs[2] = ErrTxTypeNotSupported
    /\ call.errs[3] # ErrTxTypeNotSupported

\* the largest of the nonces the sub-pools report
MaxReport(reports) == CHOOSE m \in {reports[j] : j \in subpools} : \A j \in subpools : reports[j] <= m

\* C17: Nonce returns the maximum of the nonces the sub-pools report for the
\* account; when one sub-pool holds the account, so that no other sub-pool
\* reports more than it does, Nonce returns that sub-pool's nonce.
C17_NonceIsMax ==
    call.op = "Nonce"
    => /\ call.nonce = MaxReport(call.reports)
       /\ \A k \in subpools :
             (\A j \in subpools \ {k} : call.reports[j] <= call.reports[k])
             => call.nonce = call.reports[k]

\* a Nonce call where the first sub-pool reports more than the last one does
C17_Witness ==
    /\ call.op = "Nonce"
    /\ call.reports[0] > call.reports[NumSubPools - 1]
    /\ call.nonce = call.reports[0]

\* -------------------------------------------------------------- New claims

\* the sub-pools New has called ev on, in call order
CtorCalls(evs) == SelectSeq(ctorTrace, LAMBDA e : e.ev \in evs)

\* C14: if the Init of sub-pool i fails, New initializes no later sub-pool,
\* closes sub-pools i-1 down to 0 once each in that order and no other, starts
\* neither the head subscription nor the loop, and returns that error and no pool.
C14_NewFailsAtomically ==
    \A n \in 1 .. Len(ctorTrace) :
       ctorTrace[n].ev = "initErr"
       => LET i == ctorTrace[n].sub
              closes == CtorCalls({"close", "closeErr"})
          IN  /\ n = i + 1
              /\ \A m \in 1 .. n : ctorTrace[m].sub = m - 1
              /\ \A m \in 1 .. n - 1 : ctorTrace[m].ev = "init"
              /\ \A m \in n + 1 .. Len(ctorTrace) : ctorTrace[m].ev \in {"close", "closeErr"}
              /\ i < ctorN
              /\ Len(closes) <= i
              /\ \A m \in 1 .. Len(closes) : closes[m].sub = i - m
              /\ loopPc = "unstarted"
              /\ ~newHeadSub
              /\ ctorPc \in {"unwind", "returned"}
              /\ ctorPc = "returned"
                 => /\ Len(closes) = i
                    /\ ctorRet = [pool |-> FALSE, err |-> InitErr(i)]

\* New has returned after the Init of the third sub-pool failed: the second
\* sub-pool was closed first and its Close failed, the first sub-pool was
\* closed after it, and the chain moved on while New ran
C14_Witness ==
    /\ ctorPc = "returned"
    /\ ~ctorRet.pool
    /\ ctorRet.err = InitErr(2)
    /\ LET closes == CtorCalls({"close", "closeErr"})
       IN  /\ Len(closes) = 2
           /\ closes[1] = CtorEvent("closeErr", 1, ctorHead)
           /\ closes[2] = CtorEvent("close", 0, ctorHead)
    /\ ctorHead # currentBlock(chainHead)

\* --------------------------------------------------- validator gate claims

\* C19: a pull request of a node that is not in the validator set looked up
\* for the current height gets no response; a pull request of a node that is
\* in it with nonzero weight gets exactly one response, which is a well-formed
\* pull response (its transactions are transactions, possibly none).
C19_ValidatorGating ==
    /\ (req.pc \in {"respond", "done"} /\ req.lookup.err = ErrNil /\ req.node \notin DOMAIN req.lookup.set)
       => /\ ~req.admitted
          /\ req.responses = << >>
          /\ req.pc = "done"
    /\ (req.pc = "done" /\ req.lookup.err = ErrNil /\ req.node \in DOMAIN req.lookup.set
        /\ req.lookup.set[req.node] > 0)
       => /\ req.admitted
          /\ Len(req.responses) = 1
          /\ req.responses[1] \in [gossip : SUBSET GossipTxs]
    /\ Len(req.responses) <= 1

\* a request of a validator has been answered, with a transaction, while the
\* set holds another node too
C19_Witness ==
    /\ req.pc = "done"
    /\ req.lookup.err = ErrNil
    /\ req.node \in DOMAIN req.lookup.set
    /\ req.lookup.set[req.node] > 0
    /\ Len(req.responses) = 1
    /\ req.responses[1].gossip # {}
    /\ req.lookup.height > 0

\* C20: when the lookup of the validator set for the current height fails,
\* with the unknown-chain error or another, the requester is not admitted and
\* no response is produced, whoever the requester is and whatever the
\* validator set is: the request never reaches the responder.
C20_GateFailsClosed ==
    req.lookup.err # ErrNil
    => /\ ~req.admitted
       /\ req.responses = << >>
       /\ req.pc \in {"decide", "done"}
       /\ req.lookup.set = EmptyValidators

\* a request of a node that is a validator of nonzero weight, for
\* transactions the responder holds, has been dropped without a response
\* because the lookup failed with the unknown-chain error
C20_Witness ==
    /\ req.pc = "done"
    /\ req.lookup.err = ErrUnknownChain
    /\ req.node \in DOMAIN valSet
    /\ valSet[req.node] > 0
    /\ mempool \ req.filter # {}
    /\ ~req.admitted
    /\ req.responses = << >>

\* ------------------------------------------------------------ GasTip claims

\* C29: GasTip returns the gas tip the pool enforces: the tip New was called
\* with as long as SetGasTip was never called, and the tip of the most recent
\* SetGasTip call afterwards; when SetGasTip has returned, every sub-pool
\* enforces that tip.
C29_GasTipCurrent ==
    /\ tipRet.op = "GasTip"
       => /\ ~tipRet.panic
          /\ tipRet.val = IF tipRet.last = NilPointer THEN initGasTip ELSE tipRet.last[1]
    /\ (setPc = "idle" /\ lastSetTip # NilPointer)
       => \A k \in subpools : subGasTip[k] = lastSetTip[1]

\* ------------------------------------------ reservation table claims, III

\* the sub-pools inside reserver, between Lock and Unlock
InReserver == {s \in subpools : rpc[s] # "idle"}

\* C30: of the sub-pools that called for the same account while it was
\* unreserved, exactly one acquires it and every other one returns "address
\* already reserved", in whatever order they get the lock; at most one call is
\* between Lock and Unlock, and the table a call has read is the table it
\* updates.
C30_ConcurrentAcquire ==
    /\ Cardinality(InReserver) <= 1
    /\ (InReserver # {}) <=> reserveLock
    /\ \A s \in subpools :
          /\ rpc[s] \in {"locked", "read"} => reservations = rbefore[s]
          /\ rpc[s] = "read" => rlocal[s] = lookup(reservations, rargs[s].addr)
    /\ \A s \in subpools :
          (Returning(s) /\ rargs[s].reserve /\ rwait[s].free)
          => LET a == rargs[s].addr
                 others == {o \in subpools \ {s} : a \in held[o]}
             IN  /\ (rret[s].err = ErrNil) <=> (others = {})
                 /\ (rret[s].err = ErrAlreadyReserved) <=> (others # {})
                 /\ Cardinality({o \in subpools : a \in held[o]}) = 1
                 /\ OwnerNow(s).exists
                 /\ a \in held[OwnerNow(s).owner]

\* a sub-pool returns "address already reserved" from a call it made while the
\* account was unreserved: another sub-pool took the account in between
C30_Witness ==
    \E s \in subpools :
       /\ Returning(s) /\ rargs[s].reserve /\ rwait[s].free
       /\ rret[s].err = ErrAlreadyReserved
       /\ \E o \in subpools \ {s} : rargs[s].addr \in held[o]

\* ------------------------------------------------------------ Mempool claims

\* C22: an Add or AddLocal of a transaction whose hash is in storage fails with
\* "duplicate" and leaves storage and filter as they were; a transaction that
\* is not in storage is not rejected as a duplicate, a filter match
\* notwithstanding.
C22_DuplicateRejected ==
    [][mpRet'.op = "Add" =>
          IF mempoolHas(mpStore, mpRet'.tx)
          THEN mpRet'.err = ErrDuplicate /\ UNCHANGED <<mpStore, mpFilter>>
          ELSE mpRet'.err # ErrDuplicate]_vars

C22_Witness ==
    /\ mpRet.op = "Add"
    /\ mpRet.err = ErrDuplicate
    /\ mempoolHas(mpStore, mpRet.tx)

\* a false positive was not rejected: the filter matched a hash that was not
\* in storage, and the valid transaction was inserted
C22_FalsePositiveInserted ==
    /\ mpRet.op = "Add"
    /\ mpRet.fp
    /\ mpRet.err = NilErr
    /\ mempoolHas(mpStore, mpRet.tx)

\* C23: every transaction held in storage tests as possibly present against
\* the Mempool's filter under the filter's own salt; an insertion that keeps
\* storage within capacity leaves every transaction inserted so far in
\* storage (Has) and matching the filter.
C23_FilterSoundness ==
    /\ \A h \in storedHashes(mpStore) : filterHas(mpFilter, h)
    /\ (mpRet.op = "Add" /\ mpRet.err = NilErr /\ Len(mpRet.full) <= MaxCap) =>
           /\ mpStore = mpRet.full
           /\ \A i \in DOMAIN mpRet.full :
                  /\ mempoolHas(mpStore, mpRet.full[i].tx)
                  /\ filterHas(mpFilter, mpRet.full[i].tx)

C23_Witness ==
    /\ mpRet.op = "Add"
    /\ mpRet.err = NilErr
    /\ Len(mpRet.full) = MaxCap
    /\ Len(mpStore) = MaxCap
    /\ \A h \in storedHashes(mpStore) : filterHas(mpFilter, h)

\* the entries of full the insertion evicted
evictedBy(full, store) == {i \in DOMAIN full : ~mempoolHas(store, full[i].tx)}

\* C27: after an insertion storage holds at most the capacity, and no entry
\* that stayed has a lower priority than an entry the insertion evicted.
C27_CapacityAndPriority ==
    mpRet.op = "Add" =>
        /\ Len(mpStore) <= MaxCap
        /\ \A i \in evictedBy(mpRet.full, mpStore) :
               \A j \in DOMAIN mpRet.full \ evictedBy(mpRet.full, mpStore) :
                   ~lowerPriority(mpRet.full, j, i)

\* a remote entry was evicted while an older local entry stayed
C27_Witness ==
    /\ mpRet.op = "Add"
    /\ Len(mpStore) = MaxCap
    /\ \E i \in evictedBy(mpRet.full, mpStore) :
           /\ ~mpRet.full[i].local
           /\ \E j \in DOMAIN mpRet.full : j < i /\ mpRet.full[j].local
                                              /\ mempoolHas(mpStore, mpRet.full[j].tx)

\* ------------------------------------------------------------- gossip claims

\* how often hash occurs in the message
occurrences(gossip, hash) == Cardinality({i \in DOMAIN gossip : gossip[i] = hash})

\* C26: a transaction accepted by a local issue is queued for the push and
\* is eventually broadcast, whether or not a pull cycle ever runs; every push
\* message carries the protocol identifier of the coordinator's kind and
\* each of its transactions exactly once.
C26_PushOut ==
    /\ [][(mpRet' # mpRet /\ mpRet'.op = "Add" /\ mpRet'.local /\ mpRet'.err = NilErr)
             => mpRet'.tx \in hashesOf(toGossip')]_vars
    /\ \A h \in Hashes :
           (h \in hashesOf(toGossip)) ~> (occurrences(lastPush.gossip, h) = 1)
    /\ [](lastPush # NoPush =>
             /\ lastPush.proto = IF kind = "atomic" THEN "AtomicTxGossipHandlerID"
                                  ELSE "TxGossipHandlerID"
             /\ lastPush.gossip # << >>
             /\ \A h \in Hashes : occurrences(lastPush.gossip, h) <= 1)

\* every transaction was issued and went out in one message of the atomic
\* kind, no pull cycle having started
C26_Witness ==
    /\ kind = "atomic"
    /\ lastPush.proto = "AtomicTxGossipHandlerID"
    /\ Len(lastPush.gossip) = MaxHashes
    /\ toGossip = << >>
    /\ \A p \in Peers : pull[p] = NoPull

\* C24: the response to a pull request holds only transactions that are in
\* storage and test absent from the requester's filter under the requester's
\* salt, none of them twice; to an empty filter, with storage within the
\* response limit, it holds exactly what is in storage.
C24_PullResponse ==
    hret.handler = "AppRequest" =>
        /\ Len(hret.responses) = 1
        /\ LET resp == hret.responses[1]
               f == hret.filter
           IN  /\ \A i \in DOMAIN resp : /\ mempoolHas(mpStore, resp[i])
                                          /\ ~filterHas(f, resp[i])
               /\ \A h \in Hashes : occurrences(resp, h) <= 1
               /\ (f.bits = {} /\ Len(mpStore) <= MaxResp) =>
                      hashesOf(resp) = storedHashes(mpStore)

\* after one local insertion an empty-filter request is answered with that
\* transaction alone
C24_Witness ==
    /\ hret.handler = "AppRequest"
    /\ hret.filter.bits = {}
    /\ Len(mpStore) = 1
    /\ mpStore[1].local
    /\ hret.responses = << <<mpStore[1].tx>> >>

\* a held transaction is left out because it matches the requester's filter
C24_Filtered ==
    /\ hret.handler = "AppRequest"
    /\ Len(mpStore) = MaxCap
    /\ \E i \in DOMAIN mpStore : filterHas(hret.filter, mpStore[i].tx)
    /\ Len(hret.responses[1]) = 1

\* the hashes the insertions i, i+1, ... of the message evicted
evictedFrom(log, i) == UNION {log[j].evicted : j \in i .. Len(log)}

\* the handler of a push message reports no error and sends nothing back
pushInQuiet == hret.err = NilErr /\ hret.responses = << >>

\* C25 as stated: after an inbound push message is handled, every
\* transaction of it that was unseen and valid is in the pool (Has), stored
\* as non-local; the handler reports no error and sends no response.
C25_PushIn ==
    hret.handler = "AppGossip" =>
        /\ pushInQuiet
        /\ \A i \in DOMAIN hret.log :
               hret.log[i].fresh =>
                   /\ hret.log[i].tx \in hret.hasAfter
                   /\ \A k \in DOMAIN mpStore :
                          mpStore[k].tx = hret.log[i].tx => ~mpStore[k].local

\* what the push handler does instead: the unseen, valid transaction is in
\* the pool, stored as non-local, unless the capacity eviction of its own
\* insertion or of a later insertion of the same message took it out again;
\* its own insertion evicts it only from a storage that is full of local
\* entries.
C25_PushInUnlessEvicted ==
    hret.handler = "AppGossip" =>
        /\ pushInQuiet
        /\ \A i \in DOMAIN hret.log :
               hret.log[i].fresh =>
                   /\ \/ hret.log[i].tx \in hret.hasAfter
                      \/ hret.log[i].tx \in evictedFrom(hret.log, i)
                   /\ hret.log[i].tx \in hret.log[i].evicted =>
                          /\ Len(mpStore) = MaxCap
                          /\ \A k \in DOMAIN mpStore : mpStore[k].local
                   /\ \A k \in DOMAIN mpStore :
                          mpStore[k].tx = hret.log[i].tx => ~mpStore[k].local

\* a push message of two unseen, valid transactions has been handled: both
\* were inserted without error and both are in the pool
C25_Witness ==
    /\ hret.handler = "AppGossip"
    /\ Len(hret.log) = 2
    /\ hret.log[1].tx # hret.log[2].tx
    /\ \A i \in 1 .. 2 : /\ hret.log[i].fresh
                         /\ hret.log[i].err = NilErr
                         /\ hret.log[i].tx \in hret.hasAfter
                         /\ mempoolHas(mpStore, hret.log[i].tx)

\* the storage was full of local entries: the pushed transaction, unseen and
\* valid, was evicted by its own insertion and is not in the pool
C25_EvictedByOwnInsertion ==
    /\ hret.handler = "AppGossip"
    /\ hret.log[1].fresh
    /\ hret.log[1].tx \in hret.log[1].evicted
    /\ ~mempoolHas(mpStore, hret.log[1].tx)
    /\ Len(mpStore) = MaxCap
    /\ \A k \in DOMAIN mpStore : mpStore[k].local

\* the first transaction of a push message, unseen and valid, was inserted
\* and then evicted by the insertion of the second one
C25_EvictedByLaterInsertion ==
    /\ hret.handler = "AppGossip"
    /\ Len(hret.log) = 2
    /\ hret.log[1].fresh /\ hret.log[1].evicted = {}
    /\ hret.log[1].tx \in hret.log[2].evicted
    /\ ~mempoolHas(mpStore, hret.log[1].tx)

\* C21 as stated: a transaction that came in through several of push, pull
\* response and direct local submission is stored exactly once, and every
\* insertion after the first reported no error.
C21_Idempotence ==
    /\ \A h \in Hashes : copies(mpStore, h) <= 1
    /\ inserted.tx # 0 =>
           /\ copies(mpStore, inserted.tx) = 1
           /\ \A i \in 2 .. Len(inserted.paths) : inserted.paths[i].err = NilErr

\* what AddLocal does instead: stored exactly once; a repeated insertion by
\* push or pull response reports no error, a repeated direct local submission
\* reports "duplicate".
C21_IdempotenceLocalDuplicate ==
    /\ \A h \in Hashes : copies(mpStore, h) <= 1
    /\ inserted.tx # 0 =>
           /\ copies(mpStore, inserted.tx) = 1
           /\ \A i \in 2 .. Len(inserted.paths) :
                  inserted.paths[i].err = IF inserted.paths[i].via = "local"
                                          THEN ErrDuplicate ELSE NilErr

\* push, then pull response, then direct local submission of one transaction
C21_Witness ==
    /\ Len(inserted.paths) = 3
    /\ inserted.paths[1].via = "push"
    /\ inserted.paths[2].via = "pull"
    /\ inserted.paths[3].via = "local"
    /\ copies(mpStore, inserted.tx) = 1

\* direct local submission first, then push and pull response
C21_LocalFirst ==
    /\ Len(inserted.paths) = 3
    /\ inserted.paths[1].via = "local"
    /\ inserted.paths[2].err = NilErr
    /\ inserted.paths[3].err = NilErr

\* C28: a pull cycle under way returns to Idle; it ends by the response or by
\* the timeout, whichever comes first, with the one request of the cycle
\* sent; a request is sent only when the next cycle starts from Idle.
C28_PullCycleEnds ==
    /\ \A p \in Peers : (pull[p].pc = "pulling") ~> (pull[p].pc = "idle")
    /\ [](\A p \in Peers :
             /\ pull[p].sent <= 1
             /\ pull[p].pc = "pulling" => pull[p].sent = 1 /\ pull[p].outcome = "none"
             /\ (pull[p].pc = "idle" /\ pull[p].sent = 1) =>
                    pull[p].outcome \in {"response", "timeout"})
    /\ [][\A p \in Peers :
             pull'[p] # pull[p] =>
                 \/ /\ pull[p].pc = "idle"
                    /\ pull'[p] = [pc |-> "pulling", sent |-> 1, outcome |-> "none"]
                 \/ /\ pull[p].pc = "pulling"
                    /\ pull'[p].pc = "idle"
                    /\ pull'[p].sent = pull[p].sent
                    /\ pull'[p].outcome \in {"response", "timeout"}]_vars

\* a cycle ended by the timeout, its one request sent, while the cycle with
\* another peer is still under way
C28_Witness ==
    \E p, q \in Peers : /\ pull[p] = [pc |-> "idle", sent |-> 1, outcome |-> "timeout"]
                         /\ pull[q].pc = "pulling"

\* a cycle ended by the response
C28_ResponseFirst ==
    \E p \in Peers : /\ pull[p] = [pc |-> "idle", sent |-> 1, outcome |-> "response"]
                      /\ hret.handler = "AppResponse"

\* ------------------------------------------- reservation table claims, IV

\* C31: a release of an account that has no entry returns "address not
\* reserved"; a release of an account another sub-pool owns returns "address
\* not owned"; the two errors, and the lines logged with them, differ.
C31_ReleaseErrorsDistinct ==
    /\ ErrNotReserved # ErrNotOwned
    /\ \A s \in subpools :
          (Returning(s) /\ ~rargs[s].reserve)
          => /\ ~OwnerBefore(s).exists
                   <=> (rret[s].err = ErrNotReserved /\ rret[s].log = LogUnreserveNonReserved)
             /\ (OwnerBefore(s).exists /\ OwnerBefore(s).owner # s)
                   <=> (rret[s].err = ErrNotOwned /\ rret[s].log = LogUnreserveNonOwned)

\* a sub-pool is told "address not owned" for an account that was released
\* before and that another sub-pool has acquired since
C31_Witness ==
    \E s \in subpools :
        /\ Returning(s) /\ ~rargs[s].reserve
        /\ rret[s].err = ErrNotOwned
        /\ lastReleaser[rargs[s].addr] # -1
        /\ \E o \in subpools \ {s} : rargs[s].addr \in held[o]

\* the numbers of entries the table res gives the sub-pools
countsOf(res) == [i \in subpools |-> Cardinality(OwnedBy(res, i))]

\* C32: when a call returns an error the table, what every sub-pool holds and,
\* with metrics enabled, the gauges are as they were when the call took the
\* lock; the lock is held only while a call is inside; the table is always the
\* one the successful calls alone have built, and a call succeeds or fails by
\* that table alone, as it would had the failed calls not been made.
C32_FailedCallChangesNothing ==
    /\ \A s \in subpools :
          (Returning(s) /\ rret[s].err # ErrNil)
          => /\ reservations = rbefore[s]
             /\ \A i \in subpools : held[i] = OwnedBy(rbefore[s], i)
             /\ metricsEnabled => gauge = countsOf(rbefore[s])
    /\ reserveLock <=> (InReserver # {})
    /\ \A i \in subpools : held[i] = OwnedBy(reservations, i)
    /\ \A s \in subpools :
          Returning(s)
          => LET a == rargs[s].addr
                 mine == a \in OwnedBy(rbefore[s], s)
                 free == a \notin DOMAIN rbefore[s]
             IN  rret[s].err = ErrNil
                    <=> (IF rargs[s].reserve THEN free \/ mine ELSE mine)

\* a sub-pool that holds an account is refused the release of an account
\* another sub-pool holds, after releases that succeeded
C32_Witness ==
    \E s \in subpools :
        /\ Returning(s) /\ ~rargs[s].reserve /\ rret[s].err # ErrNil
        /\ held[s] # {}
        /\ \E o \in subpools \ {s} : rargs[s].addr \in held[o]
        /\ \E a \in Accounts : lastReleaser[a] # -1

\* C40: with metrics enabled the gauge of every sub-pool equals the number of
\* accounts the table gives it, so it is never negative; a call moves only the
\* caller's gauge, up by one when it returns nil from an acquire of an account
\* without entry, down by one when it returns nil from a release, and not at
\* all when it fails or acquires again what the caller owns.
C40_GaugeCountsReservations ==
    metricsEnabled =>
       /\ gauge = countsOf(reservations)
       /\ \A s \in subpools : gauge[s] >= 0
       /\ \A s \in subpools :
             Returning(s)
             => LET was == countsOf(rbefore[s])
                    step == IF rret[s].err # ErrNil THEN 0
                            ELSE IF ~rargs[s].reserve THEN -1
                            ELSE IF OwnerBefore(s).exists THEN 0 ELSE 1
                IN  gauge = [was EXCEPT ![s] = @ + step]

\* with metrics enabled, a sub-pool that holds an account and acquired it again
\* has a release of another account refused
C40_Witness ==
    \E s \in subpools :
        /\ metricsEnabled
        /\ Returning(s) /\ ~rargs[s].reserve /\ rret[s].err # ErrNil
        /\ reacquired \cap held[s] # {}
        /\ gauge[s] = 1

\* -------------------------------------------------- reset loop claims, II

\* C33: while a reset is in flight the loop goes on to its select without a
\* step of the reset goroutine, and there the head event is ready to be
\* received; receiving it leaves the reset as it is and only overwrites
\* newHead with the head received, the one head the loop records.
C33_HeadsConsumedDuringReset ==
    /\ []((InFlight # {} /\ loopPc = "check" /\ ~errc)
             => ENABLED (LoopResetRunning \/ LoopNoReset))
    /\ []((InFlight # {} /\ loopPc = "select" /\ newHeadSub /\ notified < MaxHeads)
             => ENABLED LoopNewHead)
    /\ [](newHead = headOf(notified))
    /\ [][(InFlight # {} /\ notified' # notified)
             => /\ notified' = notified + 1
                /\ newHead' = headOf(notified + 1)
                /\ resets' = resets
                /\ oldHead' = oldHead
                /\ resetBusy' = resetBusy
                /\ loopPc' = "check"]_vars

\* two heads were received while the first reset is inside a sub-pool's Reset
C33_Witness ==
    /\ Len(resets) = 1
    /\ resets[1].stage = "in"
    /\ notified = resets[1].startN + 2
    /\ newHead = headOf(notified)
    /\ loopPc = "select"

\* the newHead of the last reset whose completion the loop has received, or
\* the head the loop started with (0) when no reset has completed
lastCompleted ==
    LET done == {t \in 1 .. Len(resets) : resets[t].stage = "done"}
    IN  IF done = {} THEN 0
        ELSE resets[CHOOSE t \in done : \A u \in done : u <= t].new

\* C34: a reset is started only when newHead differs from oldHead, which is
\* the head of the last completed reset (the head the loop started with before
\* any); so no reset has oldHead equal to newHead, and before the first head
\* is received no reset is started and no sub-pool's Reset is called.
C34_ResetOnlyOnNewHead ==
    /\ [](oldHead = lastCompleted)
    /\ [](\A t \in 1 .. Len(resets) :
              /\ resets[t].old # resets[t].new
              /\ resets[t].startN >= 1)
    /\ [](notified = 0 =>
              /\ resets = << >>
              /\ \A i \in 1 .. Len(trace) : trace[i].ev # "reset")
    /\ [][Len(resets') > Len(resets)
             => /\ newHead # oldHead
                /\ oldHead = lastCompleted
                /\ resets'[Len(resets')].old = oldHead
                /\ resets'[Len(resets')].new = newHead]_vars

\* the loop has been round with newHead equal to oldHead after a reset, started
\* none, and a second reset has started on the next head
C34_Witness ==
    /\ Len(resets) = 2
    /\ resets[1].doneN = resets[1].startN
    /\ resets[2].startN = resets[1].doneN + 1
    /\ resets[2].old = resets[1].new
    /\ resets[2].stage = "in"

\* C35: a sub-pool on which Close has called Close gets no Reset call after
\* it, and once Close has returned no reset goroutine is about to call Reset
\* or inside one.
C35_CloseStopsResets ==
    /\ \A i, j \in 1 .. Len(trace) :
          (i < j /\ trace[i].ev \in {"close", "closeErr"} /\ trace[j].ev = "reset")
          => trace[j].sub # trace[i].sub
    /\ closePc = "returned"
          => \A t \in 1 .. Len(resets) : resets[t].stage \notin {"call", "in"}

\* Close is closing the sub-pools while a reset goroutine has Reset calls to make
C35_Witness ==
    /\ closePc = "subpools"
    /\ closeIdx = 1
    /\ \E t \in 1 .. Len(resets) : resets[t].stage = "call" /\ resets[t].idx = 0

\* C36: every reset goroutine the loop starts comes to its end: the loop
\* receives its completion and takes the busy marker out, whether or not Close
\* is called meanwhile.
C36_ResetsTerminate ==
    \A t \in 1 .. MaxHeads :
        (Len(resets) >= t)
           ~> (/\ Len(resets) >= t
               /\ resets[t].stage = "done"
               /\ (resetBusy = 0 \/ Len(resets) > t))

\* the loop has returned while a reset goroutine stands at resetDone <- newHead
C36_Witness ==
    /\ loopPc = "exited"
    /\ closePc = "returned"
    /\ resetBusy = 1
    /\ \E t \in 1 .. Len(resets) : resets[t].stage = "send"

\* the place of the loop's acknowledgement (errc <- nil) in the trace, 0 if none
ackAt ==
    IF \E i \in 1 .. Len(trace) : trace[i].ev = "ack"
    THEN CHOOSE i \in 1 .. Len(trace) : trace[i].ev = "ack"
    ELSE 0

\* C37: every sub-pool Close that Close calls comes after the loop's
\* acknowledgement, when the loop has returned; from the acknowledgement on no
\* head event is received and no reset is started.
C37_CloseAfterLoopAck ==
    /\ [](\A i \in 1 .. Len(trace) :
             trace[i].ev \in {"close", "closeErr"} => (0 < ackAt /\ ackAt < i))
    /\ [](closeIdx > 0 => loopPc = "exited")
    /\ [](ackAt > 0 =>
             /\ loopPc = "exited"
             /\ \A i \in 1 .. Len(trace) : trace[i].ev = "start" => i < ackAt)
    /\ [][ackAt > 0 => (notified' = notified /\ Len(resets') = Len(resets)
                        /\ newHead' = newHead /\ oldHead' = oldHead)]_vars

\* every sub-pool is closed; when the loop acknowledged, a head it had received
\* was waiting for its reset and the chain had more heads to give
C37_Witness ==
    /\ closeIdx = NumSubPools
    /\ ackAt > 0
    /\ newHead # oldHead
    /\ newHead # 0 /\ Len(resets) = 1 /\ resets[1].new # newHead
    /\ notified < MaxHeads

\* ---------------------------------------------------- construction claims, II

\* C38: New reads the chain's head once; every Init is passed that head, the
\* loop starts with it as oldHead and newHead, and the first reset has it as
\* oldHead, whatever the chain did while New ran.
C38_HeadCapturedOnce ==
    /\ []((ctorPc # "head") =>
             /\ \A n \in 1 .. Len(ctorTrace) :
                   ctorTrace[n].ev \in {"init", "initErr"} => ctorTrace[n].head = ctorHead
             /\ \E h \in 0 .. chainHead : ctorHead = currentBlock(h))
    /\ []((loopPc # "unstarted" /\ resets = << >>) => oldHead = ctorHead)
    /\ [](resets # << >> =>
             /\ resets[1].old = ctorHead
             /\ \A i \in 1 .. Len(trace) :
                   (trace[i].ev = "reset" /\ trace[i].task = 1) => trace[i].old = ctorHead)
    /\ [][(ctorPc # "head") => ctorHead' = ctorHead]_vars
    /\ [][(loopPc = "unstarted" /\ loopPc' # "unstarted")
             => (oldHead' = ctorHead /\ newHead' = ctorHead)]_vars

\* the chain has advanced after New read its head and before New returned,
\* and the first reset is inside the Reset of the last sub-pool
C38_Witness ==
    /\ resets # << >>
    /\ resets[1].stage = "in" /\ resets[1].idx = NumSubPools - 1
    /\ ctorHead # currentBlock(chainHead)
    /\ Len(ctorTrace) = NumSubPools

\* ------------------------------------------------------ lookup query claims

\* the sub-pools whose report is a hit: not the miss value
hitsOf(reports, miss) == {k \in subpools : reports[k] # miss}

\* the first of the sub-pools in hits, in registration order
firstOf(hits) == CHOOSE k \in hits : \A o \in hits : k <= o

\* C39: Has, Get and Status ask the sub-pools in registration order and stop
\* at the first hit: the sub-pools asked are those up to the first one that has
\* the hash (all when none has it); Has is true exactly when some sub-pool has
\* it; Get returns the transaction of the first sub-pool holding it, nil when
\* none holds it; Status returns the first status that is not unknown, and
\* unknown when every sub-pool reports unknown.
C39_LookupFirstHit ==
    /\ call.op = "Has"
       => LET hits == hitsOf(call.reports, FALSE)
          IN  /\ call.ret <=> (hits # {})
              /\ call.asked = (IF hits = {} THEN NumSubPools ELSE firstOf(hits) + 1)
    /\ call.op = "Get"
       => LET hits == hitsOf(call.reports, NilTx)
          IN  /\ call.ret = (IF hits = {} THEN NilTx ELSE call.reports[firstOf(hits)])
              /\ call.asked = (IF hits = {} THEN NumSubPools ELSE firstOf(hits) + 1)
    /\ call.op = "Status"
       => LET hits == hitsOf(call.reports, TxStatusUnknown)
          IN  /\ call.ret = (IF hits = {} THEN TxStatusUnknown
                             ELSE call.reports[firstOf(hits)])
              /\ call.asked = (IF hits = {} THEN NumSubPools ELSE firstOf(hits) + 1)

\* a Get of a hash two sub-pools hold, each with a transaction of its own
C39_Witness ==
    /\ call.op = "Get"
    /\ call.reports[0] # NilTx
    /\ call.reports[NumSubPools - 1] # NilTx
    /\ call.reports[0] # call.reports[NumSubPools - 1]
    /\ call.ret = call.reports[0]
    /\ call.asked = 1

====
